---- MODULE Spec2Model ----
(***************************************************************************)
(* Model of the resilient integration pipeline of zoom-middleware:         *)
(*   - the Rate-Limited Dispatcher  (src/src/services/rateLimit.ts)        *)
(*   - the Streaming Connection Manager                                    *)
(*                         (src/src/services/zoomWebSocketService.ts)      *)
(* Node.js runs one callback at a time; an action below is one event-loop  *)
(* turn: the code from one suspension point (timer, I/O completion, call   *)
(* from outside) up to the next one, microtask hops included.              *)
(***************************************************************************)
EXTENDS Integers, Sequences, FiniteSets, TLC

(***************************************************************************)
(* Bounds of the model                                                     *)
(***************************************************************************)
MaxTasks == 4          \* execute() calls made in one behaviour
MaxLiveTasks == 2      \* execute() calls made in one behaviour of the short dispatcher runs
MaxSockets == 3        \* WebSocket objects created in one behaviour
MaxFrames == 2         \* frames received in one behaviour
MaxCallers == 3        \* getAccessToken() calls made in one behaviour
MaxNowHalf == 6        \* the clock of the token provider stops after this many half seconds
MaxEvents == 2         \* recording.completed events whose extraction runs in one behaviour
MaxExternalCalls == 3  \* calls of initialize()/close() from outside the manager
MaxFiles == 1          \* recording_files entries of a recording.completed event
MaxCharacters == 2     \* characters in one response of Gemini
MaxRuns == 2           \* processZoomEvent() invocations running side by side
MaxNowMs == 1          \* the millisecond clock of the file names stops here
ClockStepMs == 500     \* granularity of the clock: one Tick advances it by this much
maxRetries == 2        \* options.maxRetries of the modelled dispatcher

(***************************************************************************)
(* Options of the dispatcher instance clickUpRateLimiter (maxRetries is a  *)
(* constructor option like them; it is kept small above)                   *)
(***************************************************************************)
maxRequests == 3
timeWindowMs == 1000
retryDelayMs == 1000
PollMs == 100          \* waitForAvailableSlot: sleep(100)

Tasks == 1..MaxTasks
\* how fn() can end: a result, an error with HTTP status 429, a timeout (an
\* error with no response)
Outcomes == {"ok", "throttled", "timeout"}

VARIABLES
  queue,              \* RateLimiter.queue: tasks pushed and not yet shifted
  processing,         \* RateLimiter.processing
  requestTimestamps,  \* RateLimiter.requestTimestamps, each kept as its age now - timestamp
  drainLoops,         \* processQueue() invocations that passed the guard and did not return
  submitted,          \* number of execute() calls made so far; the n-th call creates task n
  pc,                 \* pc[t]: where the closure of task t stands
  retries,            \* retries[t]: the closure's local variable
  sleepLeft,          \* sleepLeft[t]: ms left of the sleep() task t is suspended in
  outcomes,           \* outcomes[t]: how each invocation of fn ended, in order
  waits,              \* waits[t]: the backoff delays the closure slept, in order
  settled,            \* settled[t]: what the caller's promise was settled with
  calls,              \* the tasks whose fn was invoked, in invocation order
  callAges            \* callAges[i]: time since invocation i, saturated at timeWindowMs

rlvars == <<queue, processing, requestTimestamps, drainLoops, submitted,
            pc, retries, sleepLeft, outcomes, waits, settled, calls, callAges>>

VARIABLES
  ws,                 \* ZoomWebSocketService.ws: "null", or the readyState of the socket it holds
  reconnectTimer,     \* .reconnectTimer: "null", "armed", or "spent" (fired or cleared handle)
  isConnecting,       \* .isConnecting
  pingInterval,       \* .pingInterval: TRUE when it holds an interval handle
  reconnectAttempts,  \* .reconnectAttempts
  stray,              \* stray[st]: sockets in readyState st the manager created and no longer holds
  activeIntervals,    \* interval timers set by 'open' handlers and not cleared
  tokenWaiters,       \* initialize() calls suspended at `await getAccessToken()`
  created,            \* WebSocket objects constructed so far
  extCalls,           \* calls made from outside so far
  autoAttempts,       \* initialize() runs started by the reconnect timer since the last
                      \* socket 'open' or call from outside
  scheduled,          \* the attempt number and the delay given to the armed reconnect timer
  fatalReports,       \* "Giving up" reports since the last initialize() from outside
  closeRuns           \* close() calls from outside since the last initialize() from outside

wsvars == <<ws, reconnectTimer, isConnecting, pingInterval, reconnectAttempts, stray,
            activeIntervals, tokenWaiters, created, extCalls, autoAttempts,
            scheduled, fatalReports, closeRuns>>

VARIABLES
  frames,             \* the frames the 'message' handler received, in arrival order
  handoffs,           \* the frames processZoomEvent() was invoked for, in invocation order
  eventRun            \* eventRun[i]: the processZoomEvent() invocation of frame i

fvars == <<frames, handoffs, eventRun>>

VARIABLES
  accessToken,        \* the cached token (0: the empty string, nothing cached)
  tokenExpiry,        \* the cached expiry, in seconds
  nowHalf,            \* Date.now(), in half seconds
  tokPc,              \* tokPc[c]: where call c of getAccessToken() stands
  tokGot,             \* tokGot[c]: the token call c returned (0: none)
  requestsSent        \* requests sent to the token endpoint so far

tokvars == <<accessToken, tokenExpiry, nowHalf, tokPc, tokGot, requestsSent>>

VARIABLES
  evPc,               \* evPc[e]: the await the extraction of event e is suspended at
  evLevel,            \* evLevel[e]: which call of the chain that await belongs to
  evCalls,            \* evCalls[e]: the strategies invoked for event e, in order
  evOutcomes,         \* evOutcomes[e]: how each finished strategy ended, in order
  evResult,           \* evResult[e]: what the chain gave handleRecordingCompleted()
  evSource            \* evSource[e]: where the text last given to Gemini came from

evvars == <<evPc, evLevel, evCalls, evOutcomes, evResult, evSource>>

VARIABLES
  hPc,                \* the await handleRecordingCompleted() is suspended at, or how it exited
  hEvent,             \* the event it was called with
  hError,             \* the step whose error it rethrew ("none": no error)
  hCalls,             \* the services it has called, in order
  filesToCleanup,     \* its local filesToCleanup
  hCreated,           \* the files written to the temp directory for the event
  hCleaned,           \* the paths it passed to cleanupFiles()
  hGroup,             \* processExtractedInfoWithRateLimit(): the character group at hand
  hFact,              \* ... and the fact of that group at hand
  hAttempted,         \* the facts updateClickUpTask() was called for, as <<group, fact>>
  hFailed,            \* the facts whose updateClickUpTask() threw
  hSent               \* the calls of updateClickUpTask(), in order, by the fact's place in the list

hvars == <<hPc, hEvent, hError, hCalls, filesToCleanup, hCreated, hCleaned,
           hGroup, hFact, hAttempted, hFailed, hSent>>

VARIABLES
  gPc,                \* where a call of extractInformationWithGemini() stands
  gText,              \* its argument, the transcript
  gParsed,            \* what the parsing of Gemini's response gave
  gResults            \* the list it returned

gvars == <<gPc, gText, gParsed, gResults>>

VARIABLES
  runPc,              \* runPc[r]: the await run r of processZoomEvent() is suspended at, or how it ended
  runFiles,           \* runFiles[r]: filesToCleanup of its handleRecordingCompleted()
  runOut,             \* runOut[r]: the path its pending downloadFile() or convertToMp3() writes to
  runReport,          \* runReport[r]: the step whose error its catch clauses logged
  disk,               \* the files in the temp directory
  nowMs               \* Date.now(), in milliseconds

runvars == <<runPc, runFiles, runOut, runReport, disk, nowMs>>

\* what the actions of one component leave alone
nonRL == <<wsvars, fvars, tokvars, evvars, hvars, gvars, runvars>>
nonWS == <<rlvars, fvars, tokvars, evvars, hvars, gvars, runvars>>
nonF == <<rlvars, wsvars, tokvars, evvars, hvars, gvars, runvars>>
nonTok == <<rlvars, wsvars, fvars, evvars, hvars, gvars, runvars>>
nonEv == <<rlvars, wsvars, fvars, tokvars, hvars, gvars, runvars>>
nonH == <<rlvars, wsvars, fvars, tokvars, evvars, gvars, runvars>>
nonG == <<rlvars, wsvars, fvars, tokvars, evvars, hvars, runvars>>
nonRun == <<rlvars, wsvars, fvars, tokvars, evvars, hvars, gvars>>

vars == <<rlvars, wsvars, fvars, tokvars, evvars, hvars, gvars, runvars>>

Pending == [st |-> "pending", by |-> 0, kind |-> "none"]

Min(a, b) == IF a < b THEN a ELSE b
Max(a, b) == IF a > b THEN a ELSE b

(***************************************************************************)
(* Pure parts of RateLimiter                                               *)
(***************************************************************************)
\* canMakeRequest, the filter: timestamps with now - timestamp < timeWindowMs stay
FilterWindow(ts) == SelectSeq(ts, LAMBDA age : age < timeWindowMs)

CanMakeRequestLax(ts) == Len(FilterWindow(ts)) <= maxRequests
\* canMakeRequest, the result
CanMakeRequest(ts) == Len(FilterWindow(ts)) < maxRequests

ErrorStatusAlways429(kind) == 429
\* error.response?.status of the error an invocation ends with (0: no response)
ErrorStatus(kind) == IF kind = "throttled" THEN 429 ELSE 0

ShouldRetryOffByOne(status, r) == status = 429 /\ r <= maxRetries
ShouldRetryAnyError(status, r) == r < maxRetries
\* the catch clause's condition
ShouldRetry(status, r) == status = 429 /\ r < maxRetries

BackoffDelayFlat(r) == retryDelayMs
\* sleep(retryDelayMs * retries), retries already incremented
BackoffDelay(r) == retryDelayMs * r

ShiftAsPeek(q) == [task |-> Head(q), rest |-> q]
ShiftAsPop(q) == [task |-> q[Len(q)], rest |-> SubSeq(q, 1, Len(q) - 1)]
\* queue.shift()
Shift(q) == [task |-> Head(q), rest |-> Tail(q)]

\* the clock advances by d: every recorded age grows, saturating at the window
Aged(ts, d) == [i \in 1..Len(ts) |-> Min(ts[i] + d, timeWindowMs)]

(***************************************************************************)
(* The closure pushed by execute().  Begin is `await waitForAvailableSlot()`*)
(* followed by the call of fn(): one poll of canMakeRequest(), then either  *)
(* the timestamp is pushed and fn is in flight, or the closure sleeps.      *)
(* pcB is pc as the caller of Begin leaves it for the other tasks.          *)
(***************************************************************************)
Begin(t, pcB) ==
  IF CanMakeRequest(requestTimestamps)
  THEN /\ requestTimestamps' = Append(FilterWindow(requestTimestamps), 0)
       /\ pc' = [pcB EXCEPT ![t] = "calling"]
       /\ sleepLeft' = [sleepLeft EXCEPT ![t] = 0]
       /\ calls' = Append(calls, t)
       /\ callAges' = Append(callAges, 0)
  ELSE /\ requestTimestamps' = FilterWindow(requestTimestamps)
       /\ pc' = [pcB EXCEPT ![t] = "waitSlot"]
       /\ sleepLeft' = [sleepLeft EXCEPT ![t] = PollMs]
       /\ UNCHANGED <<calls, callAges>>

DrainAborted(pcB, retB) ==
  /\ processing' = FALSE
  /\ drainLoops' = drainLoops - 1
  /\ pc' = pcB
  /\ retries' = retB
  /\ UNCHANGED <<queue, requestTimestamps, sleepLeft, calls, callAges>>

\* processQueue, the body of its while loop and the finally clause: the next
\* task is shifted and run up to its first suspension, or the loop ends
Drain(pcB, retB) ==
  IF Len(queue) > 0
  THEN LET s == Shift(queue) IN
       /\ queue' = s.rest
       /\ retries' = [retB EXCEPT ![s.task] = 0]
       /\ Begin(s.task, pcB)
       /\ UNCHANGED <<processing, drainLoops>>
  ELSE /\ processing' = FALSE
       /\ drainLoops' = drainLoops - 1
       /\ pc' = pcB
       /\ retries' = retB
       /\ UNCHANGED <<queue, requestTimestamps, sleepLeft, calls, callAges>>

\* the closure's `while (retries <= maxRetries)`: another attempt, or the
\* closure returns without settling the promise and processQueue goes on
LoopTop(t, retB) ==
  IF retB[t] <= maxRetries
  THEN /\ retries' = retB
       /\ Begin(t, pc)
       /\ UNCHANGED <<queue, processing, drainLoops>>
  ELSE Drain([pc EXCEPT ![t] = "returned"], retB)

(***************************************************************************)
(* Dispatcher actions                                                      *)
(***************************************************************************)
StartsLoopAlways(proc) == TRUE
\* execute()'s `if (!this.processing)` and processQueue()'s first check
StartsLoop(proc) == ~proc

\* execute(fn, context): push the closure, then processQueue() unless processing
\* (context only enters a log message)
Execute ==
  /\ submitted < MaxTasks
  /\ LET t == submitted + 1
         q == Append(queue, t)
         pcQ == [pc EXCEPT ![t] = "queued"]
     IN /\ submitted' = t
        /\ IF StartsLoop(processing) /\ Len(q) > 0
           THEN LET s == Shift(q) IN
                /\ processing' = TRUE
                /\ drainLoops' = drainLoops + 1
                /\ queue' = s.rest
                /\ retries' = [retries EXCEPT ![s.task] = 0]
                /\ Begin(s.task, pcQ)
           ELSE /\ queue' = q
                /\ pc' = pcQ
                /\ UNCHANGED <<processing, drainLoops, retries, requestTimestamps,
                               sleepLeft, calls, callAges>>
  /\ UNCHANGED <<outcomes, waits, settled>>
  /\ UNCHANGED nonRL

\* fn() of task t settles: resolve, or the catch clause
Complete(t, kind) ==
  /\ pc[t] = "calling"
  /\ outcomes' = [outcomes EXCEPT ![t] = Append(@, kind)]
  /\ IF kind = "ok"
     THEN /\ settled' = [settled EXCEPT ![t] =
                           [st |-> "resolved", by |-> Len(outcomes[t]) + 1, kind |-> kind]]
          /\ Drain([pc EXCEPT ![t] = "resolved"], retries)
          /\ UNCHANGED waits
     ELSE IF ShouldRetry(ErrorStatus(kind), retries[t])
     THEN /\ retries' = [retries EXCEPT ![t] = @ + 1]
          /\ waits' = [waits EXCEPT ![t] = Append(@, BackoffDelay(retries[t] + 1))]
          /\ sleepLeft' = [sleepLeft EXCEPT ![t] = BackoffDelay(retries[t] + 1)]
          /\ pc' = [pc EXCEPT ![t] = "backoff"]
          /\ UNCHANGED <<queue, processing, drainLoops, requestTimestamps, settled,
                         calls, callAges>>
     ELSE /\ settled' = [settled EXCEPT ![t] =
                           [st |-> "rejected", by |-> Len(outcomes[t]) + 1, kind |-> kind]]
          /\ Drain([pc EXCEPT ![t] = "rejected"], retries)
          /\ UNCHANGED waits
  /\ UNCHANGED submitted
  /\ UNCHANGED nonRL

\* the setTimeout of the sleep() task t is suspended in fires
SleepEnds(t) ==
  /\ pc[t] \in {"waitSlot", "backoff"}
  /\ sleepLeft[t] = 0
  /\ IF pc[t] = "waitSlot"
     THEN /\ Begin(t, pc)
          /\ UNCHANGED <<queue, processing, drainLoops, retries>>
     ELSE LoopTop(t, retries)
  /\ UNCHANGED <<submitted, outcomes, waits, settled>>
  /\ UNCHANGED nonRL

\* time passes
Tick ==
  /\ requestTimestamps' = Aged(requestTimestamps, ClockStepMs)
  /\ callAges' = Aged(callAges, ClockStepMs)
  /\ sleepLeft' = [t \in Tasks |-> Max(sleepLeft[t] - ClockStepMs, 0)]
  /\ UNCHANGED <<queue, processing, drainLoops, submitted, pc, retries,
                 outcomes, waits, settled, calls>>
  /\ UNCHANGED nonRL

InitRL ==
  /\ queue = <<>>
  /\ processing = FALSE
  /\ requestTimestamps = <<>>
  /\ drainLoops = 0
  /\ submitted = 0
  /\ pc = [t \in Tasks |-> "new"]
  /\ retries = [t \in Tasks |-> 0]
  /\ sleepLeft = [t \in Tasks |-> 0]
  /\ outcomes = [t \in Tasks |-> <<>>]
  /\ waits = [t \in Tasks |-> <<>>]
  /\ settled = [t \in Tasks |-> Pending]
  /\ calls = <<>>
  /\ callAges = <<>>

NextRL ==
  \/ Execute
  \/ \E t \in Tasks, kind \in Outcomes : Complete(t, kind)
  \/ \E t \in Tasks : SleepEnds(t)
  \/ Tick


(***************************************************************************)
(* Streaming Connection Manager (ZoomWebSocketService).  The manager's     *)
(* fields are gathered in a record so that cleanup() and                   *)
(* scheduleReconnect() compose as the handlers call them.  Sockets the     *)
(* manager no longer holds keep the handlers setupEventHandlers() gave     *)
(* them: their events still run cleanup()/scheduleReconnect() on `this`.   *)
(***************************************************************************)
MAX_RECONNECT_ATTEMPTS == 10
RECONNECT_INTERVAL == 5000
MaxDelayMs == 60000    \* scheduleReconnect: Math.min(..., 60000)

\* what 0.9 + Math.random() * 0.2 can be, in hundredths: [0.9, 1.1)
JitterPercents == {90, 100, 109}

RECURSIVE Pow(_, _)
Pow(b, e) == IF e = 0 THEN 1 ELSE b * Pow(b, e - 1)

\* Delays are kept exact: a delay d ms is the integer d * DelayUnit, the
\* power of two clearing the denominator of RECONNECT_INTERVAL * 1.5^(n-1)
\* for every n up to MAX_RECONNECT_ATTEMPTS, times 100 for the jitter.
DelayScale == Pow(2, MAX_RECONNECT_ATTEMPTS - 4)
DelayUnit == DelayScale * 100

\* RECONNECT_INTERVAL * Math.pow(1.5, n - 1), times DelayScale
Backoff(n) == ((RECONNECT_INTERVAL * DelayScale) \div Pow(2, n - 1)) * Pow(3, n - 1)

CappedBackoffNoCap(n) == Backoff(n)
\* Math.min(RECONNECT_INTERVAL * Math.pow(1.5, n - 1), 60000), times DelayScale
CappedBackoff(n) == Min(Backoff(n), MaxDelayMs * DelayScale)

\* the delay of attempt n under jitter factor j/100, times DelayUnit
ReconnectDelay(n, j) == CappedBackoff(n) * j

NoTimer == [n |-> 0, delay |-> 0]

Alive == {"CONNECTING", "OPEN"}
SocketStates == {"CONNECTING", "OPEN", "CLOSING"}

Mgr == [ws |-> ws, reconnectTimer |-> reconnectTimer, isConnecting |-> isConnecting,
        pingInterval |-> pingInterval, reconnectAttempts |-> reconnectAttempts,
        stray |-> stray, activeIntervals |-> activeIntervals,
        tokenWaiters |-> tokenWaiters, created |-> created,
        scheduled |-> scheduled, fatalReports |-> fatalReports]

SetMgr(m) ==
  /\ ws' = m.ws
  /\ reconnectTimer' = m.reconnectTimer
  /\ isConnecting' = m.isConnecting
  /\ pingInterval' = m.pingInterval
  /\ reconnectAttempts' = m.reconnectAttempts
  /\ stray' = m.stray
  /\ activeIntervals' = m.activeIntervals
  /\ tokenWaiters' = m.tokenWaiters
  /\ created' = m.created
  /\ scheduled' = m.scheduled
  /\ fatalReports' = m.fatalReports

\* clearTimeout(handle): an armed timer is disarmed, the handle stays in the field
Cleared(timer) == IF timer = "armed" THEN "spent" ELSE timer

cleanupKeepsHandle(m) ==
  LET m1 == IF m.pingInterval
            THEN [m EXCEPT !.pingInterval = FALSE, !.activeIntervals = @ - 1]
            ELSE m
  IN IF m1.ws = "OPEN" THEN [m1 EXCEPT !.ws = "CLOSING"] ELSE m1

\* cleanup(): the interval is cleared; the socket is closed only if its
\* readyState is OPEN, and the field is nulled whatever its readyState
cleanup(m) ==
  LET m1 == IF m.pingInterval
            THEN [m EXCEPT !.pingInterval = FALSE, !.activeIntervals = @ - 1]
            ELSE m
      left == IF m1.ws = "OPEN" THEN "CLOSING" ELSE m1.ws
  IN IF m1.ws = "null" THEN m1
     ELSE IF left \in SocketStates
          THEN [m1 EXCEPT !.ws = "null", !.stray = [@ EXCEPT ![left] = @ + 1]]
          ELSE [m1 EXCEPT !.ws = "null"]

\* scheduleReconnect(); j is the jitter drawn by Math.random()
scheduleReconnect(m, j) ==
  LET m1 == [m EXCEPT !.reconnectTimer = Cleared(@), !.scheduled = NoTimer,
                      !.reconnectAttempts = @ + 1]
  IN IF m1.reconnectAttempts > MAX_RECONNECT_ATTEMPTS
     THEN [m1 EXCEPT !.fatalReports = Min(@ + 1, 2)]
     ELSE [m1 EXCEPT !.reconnectTimer = "armed",
                     !.scheduled = [n |-> m1.reconnectAttempts,
                                    delay |-> ReconnectDelay(m1.reconnectAttempts, j)]]

\* close()
close(m) ==
  LET m1 == cleanup(m)
  IN IF m1.reconnectTimer # "null"
     THEN [m1 EXCEPT !.reconnectTimer = "null", !.scheduled = NoTimer]
     ELSE m1

initializeEnterUnguarded(m) ==
  [m EXCEPT !.isConnecting = TRUE, !.tokenWaiters = @ + 1]

\* initialize() up to `await getAccessToken()`
initializeEnter(m) ==
  IF m.isConnecting THEN m
  ELSE [m EXCEPT !.isConnecting = TRUE, !.tokenWaiters = @ + 1]

\* initialize() after the token arrived: the old socket is cleaned up, the
\* new one is constructed and wired
initializeConnect(m) ==
  LET m1 == IF m.ws # "null" THEN cleanup(m) ELSE m
  IN [m1 EXCEPT !.ws = "CONNECTING", !.created = @ + 1,
                !.isConnecting = FALSE, !.reconnectAttempts = 0]

\* initialize(), the catch clause; thrownAfterCleanup: `new WebSocket` threw
initializeCatch(m, thrownAfterCleanup, j) ==
  LET m1 == IF thrownAfterCleanup /\ m.ws # "null" THEN cleanup(m) ELSE m
  IN scheduleReconnect([m1 EXCEPT !.isConnecting = FALSE], j)

\* the 'open' handler
onOpen(m) == [m EXCEPT !.pingInterval = TRUE, !.activeIntervals = @ + 1]

\* the 'close' handler
onClose(m, j) == scheduleReconnect(cleanup(m), j)

(***************************************************************************)
(* Connection Manager actions                                              *)
(***************************************************************************)
\* app.listen callback / test-ws: initialize() called from outside
Start ==
  /\ extCalls < MaxExternalCalls
  /\ extCalls' = extCalls + 1
  /\ SetMgr(initializeEnter([Mgr EXCEPT !.fatalReports = 0]))
  /\ autoAttempts' = 0
  /\ closeRuns' = 0
  /\ UNCHANGED nonWS

\* POST /api/reconnect: close(), then initialize()
ReconnectRoute ==
  /\ extCalls < MaxExternalCalls
  /\ extCalls' = extCalls + 1
  /\ SetMgr(initializeEnter(close([Mgr EXCEPT !.fatalReports = 0])))
  /\ autoAttempts' = 0
  /\ closeRuns' = 0
  /\ UNCHANGED nonWS

\* SIGTERM/SIGINT handlers, test-ws: close() called from outside
Close ==
  /\ extCalls < MaxExternalCalls
  /\ extCalls' = extCalls + 1
  /\ SetMgr(close(Mgr))
  /\ closeRuns' = closeRuns + 1
  /\ UNCHANGED <<autoAttempts, nonWS>>

\* the reconnect timer fires: its callback calls initialize()
ReconnectTimerFires ==
  /\ reconnectTimer = "armed"
  /\ LET m == [Mgr EXCEPT !.reconnectTimer = "spent", !.scheduled = NoTimer] IN
     /\ SetMgr(initializeEnter(m))
     /\ autoAttempts' = IF m.isConnecting THEN autoAttempts
                        ELSE IF autoAttempts > MAX_RECONNECT_ATTEMPTS THEN autoAttempts
                        ELSE autoAttempts + 1
  /\ UNCHANGED <<extCalls, closeRuns, nonWS>>

\* getAccessToken() settles for the suspended initialize(): the token arrives
\* and the socket is constructed ("ok"), the constructor throws ("throw"),
\* or getAccessToken() rejects ("fail")
TokenSettles(result) ==
  /\ tokenWaiters > 0
  /\ LET m == [Mgr EXCEPT !.tokenWaiters = @ - 1] IN
     CASE result = "ok" -> created < MaxSockets /\ SetMgr(initializeConnect(m))
       [] result = "throw" -> \E j \in JitterPercents : SetMgr(initializeCatch(m, TRUE, j))
       [] result = "fail" -> \E j \in JitterPercents : SetMgr(initializeCatch(m, FALSE, j))
  /\ UNCHANGED <<extCalls, autoAttempts, closeRuns, nonWS>>

\* the handshake of the held socket completes: 'open'
CurrentOpens ==
  /\ ws = "CONNECTING"
  /\ SetMgr(onOpen([Mgr EXCEPT !.ws = "OPEN"]))
  /\ autoAttempts' = 0
  /\ UNCHANGED <<extCalls, closeRuns, nonWS>>

\* the handshake of a socket the manager dropped completes: 'open'
StrayOpens ==
  /\ stray["CONNECTING"] > 0
  /\ SetMgr(onOpen([Mgr EXCEPT !.stray = [@ EXCEPT !["CONNECTING"] = @ - 1,
                                                    !["OPEN"] = @ + 1]]))
  /\ autoAttempts' = 0
  /\ UNCHANGED <<extCalls, closeRuns, nonWS>>

\* the held socket fails: 'error' (the handler only logs); 'close' follows
CurrentErrors ==
  /\ ws \in Alive
  /\ SetMgr([Mgr EXCEPT !.ws = "CLOSING"])
  /\ UNCHANGED <<extCalls, autoAttempts, closeRuns, nonWS>>

\* the held socket reaches CLOSED: 'close'
CurrentCloses ==
  /\ ws \in SocketStates
  /\ \E j \in JitterPercents : SetMgr(onClose([Mgr EXCEPT !.ws = "CLOSED"], j))
  /\ UNCHANGED <<extCalls, autoAttempts, closeRuns, nonWS>>

\* a dropped socket reaches CLOSED: 'close'
StrayCloses(st) ==
  /\ stray[st] > 0
  /\ \E j \in JitterPercents :
       SetMgr(onClose([Mgr EXCEPT !.stray = [@ EXCEPT ![st] = @ - 1]], j))
  /\ UNCHANGED <<extCalls, autoAttempts, closeRuns, nonWS>>

InitWS ==
  /\ ws = "null"
  /\ reconnectTimer = "null"
  /\ isConnecting = FALSE
  /\ pingInterval = FALSE
  /\ reconnectAttempts = 0
  /\ stray = [st \in SocketStates |-> 0]
  /\ activeIntervals = 0
  /\ tokenWaiters = 0
  /\ created = 0
  /\ extCalls = 0
  /\ autoAttempts = 0
  /\ scheduled = NoTimer
  /\ fatalReports = 0
  /\ closeRuns = 0

NextWS ==
  \/ Start
  \/ ReconnectRoute
  \/ Close
  \/ ReconnectTimerFires
  \/ \E result \in {"ok", "throw", "fail"} : TokenSettles(result)
  \/ CurrentOpens
  \/ StrayOpens
  \/ CurrentErrors
  \/ CurrentCloses
  \/ \E st \in SocketStates : StrayCloses(st)

(***************************************************************************)
(* The 'message' handler of the manager's sockets.  A frame is what the    *)
(* handler can tell about it: whether JSON.parse() accepts it and yields   *)
(* an object, whether it is a failed build_connection notification, and    *)
(* whether it carries event_type or event.                                 *)
(***************************************************************************)
Frames ==
  {[json |-> FALSE, connFail |-> FALSE, hasEvent |-> FALSE]} \cup
  [json : {TRUE}, connFail : BOOLEAN, hasEvent : BOOLEAN]

FrameIds == 1..MaxFrames

DispatchesFailureNotices(f) == f.json /\ f.hasEvent
\* the handler's path to processZoomEvent(): the frame parsed, it is not a
\* failed build_connection notification, and it has event_type or event
Dispatches(f) == f.json /\ ~f.connFail /\ f.hasEvent

EmitterWaitsForRunning(runs) == {i \in FrameIds : runs[i] = "running"}
\* the invocations the emitter waits for before it runs the handler for the
\* next frame: none; the promise of processZoomEvent() (in the awaiting
\* variant, of the handler itself) is left to settle on its own
EmitterWaitsFor(runs) == {}

\* some socket of the manager is open and delivers frames
SocketDelivers == ws = "OPEN" \/ stray["OPEN"] > 0

\* a frame arrives: the handler parses it and hands it to processZoomEvent()
\* or drops it
Message(f) ==
  /\ SocketDelivers
  /\ Len(frames) < MaxFrames
  /\ EmitterWaitsFor(eventRun) = {}
  /\ frames' = Append(frames, f)
  /\ IF Dispatches(f)
     THEN /\ handoffs' = Append(handoffs, Len(frames) + 1)
          /\ eventRun' = [eventRun EXCEPT ![Len(frames) + 1] = "running"]
     ELSE UNCHANGED <<handoffs, eventRun>>
  /\ UNCHANGED nonF

\* the processZoomEvent() invocation of frame i settles; a failure is logged
\* (inside processZoomEvent() or by the handler's catch)
EventSettles(i, how) ==
  /\ eventRun[i] = "running"
  /\ eventRun' = [eventRun EXCEPT ![i] = how]
  /\ UNCHANGED <<frames, handoffs>>
  /\ UNCHANGED nonF

InitF ==
  /\ frames = <<>>
  /\ handoffs = <<>>
  /\ eventRun = [i \in FrameIds |-> "none"]

NextF ==
  \/ \E f \in Frames : Message(f)
  \/ \E i \in FrameIds, how \in {"done", "failed"} : EventSettles(i, how)

\* the life of one connection, as far as frames need it
NextConnection ==
  \/ Start
  \/ TokenSettles("ok")
  \/ CurrentOpens
  \/ CurrentCloses
  \/ ReconnectTimerFires

(***************************************************************************)
(* Token provider (getAccessToken).  Its callers are the connection        *)
(* manager's initialize() and every recording.completed event being        *)
(* processed; each call is one c.                                          *)
(***************************************************************************)
SafetyMarginSec == 60

Callers == 1..MaxCallers
TokenValues == {1, 2}
\* response.data.expires_in, chosen around the margin
ExpiresIn == {60, 61, 62}

\* what the token endpoint can answer: a token and its lifetime, a response
\* without access_token, or a failed request
Responses ==
  [kind : {"token"}, token : TokenValues, expires_in : ExpiresIn] \cup
  [kind : {"noToken", "error"}, token : {0}, expires_in : {0}]

\* Math.floor(Date.now() / 1000)
CurrentTime(half) == half \div 2

CacheValidNoMargin(tok, expiry, half) == tok # 0 /\ expiry > CurrentTime(half)
\* accessToken && tokenExpiry > currentTime + 60
CacheValid(tok, expiry, half) == tok # 0 /\ expiry > CurrentTime(half) + SafetyMarginSec

\* getAccessToken() is called: the cached token is returned, or the request
\* is sent and the call is suspended
GetAccessToken(c) ==
  /\ tokPc[c] = "idle"
  /\ IF CacheValid(accessToken, tokenExpiry, nowHalf)
     THEN /\ tokPc' = [tokPc EXCEPT ![c] = "returned"]
          /\ tokGot' = [tokGot EXCEPT ![c] = accessToken]
          /\ UNCHANGED requestsSent
     ELSE /\ tokPc' = [tokPc EXCEPT ![c] = "requesting"]
          /\ requestsSent' = requestsSent + 1
          /\ UNCHANGED tokGot
  /\ UNCHANGED <<accessToken, tokenExpiry, nowHalf>>
  /\ UNCHANGED nonTok

\* axios.post() of call c settles
TokenResponse(c, resp) ==
  /\ tokPc[c] = "requesting"
  /\ IF resp.kind = "token"
     THEN /\ accessToken' = resp.token
          /\ tokenExpiry' = CurrentTime(nowHalf) + resp.expires_in
          /\ tokPc' = [tokPc EXCEPT ![c] = "returned"]
          /\ tokGot' = [tokGot EXCEPT ![c] = resp.token]
     ELSE /\ tokPc' = [tokPc EXCEPT ![c] = "threw"]
          /\ UNCHANGED <<accessToken, tokenExpiry, tokGot>>
  /\ UNCHANGED <<nowHalf, requestsSent>>
  /\ UNCHANGED nonTok

\* invalidateToken()
InvalidateToken ==
  /\ accessToken # 0
  /\ accessToken' = 0
  /\ tokenExpiry' = 0
  /\ UNCHANGED <<nowHalf, tokPc, tokGot, requestsSent>>
  /\ UNCHANGED nonTok

\* half a second passes
TokTick ==
  /\ nowHalf < MaxNowHalf
  /\ nowHalf' = nowHalf + 1
  /\ UNCHANGED <<accessToken, tokenExpiry, tokPc, tokGot, requestsSent>>
  /\ UNCHANGED nonTok

InitTok ==
  /\ accessToken = 0
  /\ tokenExpiry = 0
  /\ nowHalf = 0
  /\ tokPc = [c \in Callers |-> "idle"]
  /\ tokGot = [c \in Callers |-> 0]
  /\ requestsSent = 0

NextTok ==
  \/ \E c \in Callers : GetAccessToken(c)
  \/ \E c \in Callers, resp \in Responses : TokenResponse(c, resp)
  \/ InvalidateToken
  \/ TokTick

(***************************************************************************)
(* The extraction chain of handleRecordingCompleted():                     *)
(*   extractInformationWithZoom()   - Zoom transcript, then Gemini; its    *)
(*                                    catch clause calls                   *)
(*   extractInformationWithLemur()  - local transcription, then Gemini;    *)
(*   and the controller's own catch clause, which calls                    *)
(*   extractInformationWithLemur() once more.                              *)
(* A strategy ends with an error or with the list Gemini returned: the     *)
(* empty list or one of two non-empty lists.  transcribeAudio() catches    *)
(* every failure of its services and then returns fallbackTranscription(), *)
(* a fixed sample text: it never throws.                                   *)
(***************************************************************************)
Events == 1..MaxEvents
ExtractionResults == {"empty", "listA", "listB"}
ExtractionErrors == {"errA", "errB"}
StrategyOutcomes == ExtractionResults \cup ExtractionErrors

\* how the transcription awaited at stage pcE can end: getZoomTranscription()
\* with the transcript or an error, transcribeAudio() with a transcript or
\* with the sample text
TranscriptOutcomes(pcE) ==
  IF pcE = "getZoomTranscription" THEN {"zoom"} \cup ExtractionErrors
  ELSE {"local", "sample"}

FallsBackAlways(outcome) == TRUE
FallsBackOnEmpty(outcome) == outcome \in ExtractionErrors \cup {"empty"}
FallsBackNever(outcome) == FALSE
\* a strategy is left for the next one when it threw (the catch clauses)
FallsBack(outcome) == outcome \in ExtractionErrors

\* a strategy of event e ended with outcome: the chain returns it, or the
\* catch clause at this level runs: extractInformationWithZoom()'s calls the
\* local strategy, the controller's calls it once more, and an exception
\* of that last call leaves the chain
StrategyEnds(e, outcome) ==
  /\ evOutcomes' = [evOutcomes EXCEPT ![e] = Append(@, outcome)]
  /\ IF ~FallsBack(outcome)
     THEN /\ evPc' = [evPc EXCEPT ![e] = "returned"]
          /\ evResult' = [evResult EXCEPT ![e] = outcome]
          /\ UNCHANGED <<evLevel, evCalls>>
     ELSE IF evLevel[e] = "controllerCatch"
     THEN /\ evPc' = [evPc EXCEPT ![e] = "threw"]
          /\ evResult' = [evResult EXCEPT ![e] = outcome]
          /\ UNCHANGED <<evLevel, evCalls>>
     ELSE /\ evPc' = [evPc EXCEPT ![e] = "transcribeAudio"]
          /\ evLevel' = [evLevel EXCEPT ![e] =
                           IF @ = "zoom" THEN "zoomCatch" ELSE "controllerCatch"]
          /\ evCalls' = [evCalls EXCEPT ![e] = Append(@, "lemur")]
          /\ UNCHANGED evResult

\* handleRecordingCompleted() reaches the extraction and calls
\* extractInformationWithZoom()
ExtractionStarts(e) ==
  /\ evPc[e] = "idle"
  /\ evPc' = [evPc EXCEPT ![e] = "getZoomTranscription"]
  /\ evLevel' = [evLevel EXCEPT ![e] = "zoom"]
  /\ evCalls' = [evCalls EXCEPT ![e] = <<"zoom">>]
  /\ UNCHANGED <<evOutcomes, evResult, evSource>>
  /\ UNCHANGED nonEv

\* getZoomTranscription() / transcribeAudio() settles: the text goes to
\* Gemini, or the strategy throws
TranscriptSettles(e, how) ==
  /\ evPc[e] \in {"getZoomTranscription", "transcribeAudio"}
  /\ how \in TranscriptOutcomes(evPc[e])
  /\ IF how \in ExtractionErrors
     THEN StrategyEnds(e, how) /\ UNCHANGED evSource
     ELSE /\ evPc' = [evPc EXCEPT ![e] = "extractInformationWithGemini"]
          /\ evSource' = [evSource EXCEPT ![e] = how]
          /\ UNCHANGED <<evLevel, evCalls, evOutcomes, evResult>>
  /\ UNCHANGED nonEv

\* extractInformationWithGemini() settles
GeminiSettles(e, outcome) ==
  /\ evPc[e] = "extractInformationWithGemini"
  /\ StrategyEnds(e, outcome)
  /\ UNCHANGED evSource
  /\ UNCHANGED nonEv

InitEv ==
  /\ evPc = [e \in Events |-> "idle"]
  /\ evLevel = [e \in Events |-> "none"]
  /\ evCalls = [e \in Events |-> <<>>]
  /\ evOutcomes = [e \in Events |-> <<>>]
  /\ evResult = [e \in Events |-> "none"]
  /\ evSource = [e \in Events |-> "none"]

NextEv ==
  \/ \E e \in Events : ExtractionStarts(e)
  \/ \E e \in Events, how \in {"zoom", "local", "sample"} \cup ExtractionErrors :
       TranscriptSettles(e, how)
  \/ \E e \in Events, outcome \in StrategyOutcomes : GeminiSettles(e, outcome)

(***************************************************************************)
(* Specifications: the components share no state                           *)
(***************************************************************************)

(***************************************************************************)
(* handleRecordingCompleted() for one recording.completed event, from the  *)
(* call by processZoomEvent() to its exit: validation, getAccessToken(),   *)
(* enableZoomTranscription(), downloadFile(), convertToMp3(), the          *)
(* extraction chain, processExtractedInfoWithRateLimit() and the finally   *)
(* clause.  The event is event 1 of the chain above and its token call is  *)
(* call 1 of the token provider.                                           *)
(***************************************************************************)
HandledEvent == 1
HandlerCaller == 1

FileTypes == {"M4A", "MP4", "CHAT"}
RecordingTypes == {"audio_only", "chat_file"}
RecordingFiles == [file_type : FileTypes, recording_type : RecordingTypes]

\* event.payload.object is missing, or it is a meeting with its
\* recording_files
RecordingEvents ==
  [meeting : {FALSE}, files : {{}}] \cup
  [meeting : {TRUE},
   files : {F \in SUBSET RecordingFiles : Cardinality(F) <= MaxFiles}]

IsAudioAny(file) == TRUE
\* the predicate of recordings.find()
IsAudio(file) ==
  \/ file.file_type = "M4A"
  \/ file.file_type = "MP4"
  \/ file.recording_type = "audio_only"

\* the two throws that precede the first await
ValidationError(ev) ==
  IF ~ev.meeting THEN "No meeting data in event payload"
  ELSE IF \A f \in ev.files : ~IsAudio(f) THEN "No audio recording found"
  ELSE "none"

\* how downloadFile() and convertToMp3() can end: the file is written and
\* its path returned; they throw and nothing is on the disk; or they throw
\* after writeFile() / ffmpeg has written part of the file
FileOutcomes == {"written", "nothing", "partial"}

Range(seq) == {seq[k] : k \in 1..Len(seq)}

\* the facts of an extracted list, in extraction order, each as its
\* character
ExtractedList(list) ==
  IF list = "listA" THEN <<"tom">>
  ELSE IF list = "listB" THEN <<"tom", "jerry", "tom">>
  ELSE <<>>

\* the place of character's group in groups, 0 if it has none
GroupOf(groups, character) ==
  IF \E g \in 1..Len(groups) : groups[g].character = character
  THEN CHOOSE g \in 1..Len(groups) : groups[g].character = character
  ELSE 0

\* characterGroups after the first n facts of infos: a Map keeps its keys in
\* the order of insertion, and every fact is pushed to the list of its key
RECURSIVE GroupsAfter(_, _)
GroupsAfter(infos, n) ==
  IF n = 0 THEN <<>>
  ELSE LET groups == GroupsAfter(infos, n - 1)
           g == GroupOf(groups, infos[n])
       IN IF g = 0
          THEN Append(groups, [character |-> infos[n], facts |-> <<n>>])
          ELSE [groups EXCEPT ![g].facts = Append(@, n)]

UngroupedFacts(infos) ==
  [n \in 1..Len(infos) |-> [character |-> infos[n], facts |-> <<n>>]]
\* the grouping loop
GroupByCharacter(infos) == GroupsAfter(infos, Len(infos))

\* the groups of an extracted list
CharacterGroups(list) == GroupByCharacter(ExtractedList(list))

\* ... and the number of facts of each group
Batch(list) ==
  [g \in 1..Len(CharacterGroups(list)) |-> Len(CharacterGroups(list)[g].facts)]

CurrentBatch == Batch(evResult[HandledEvent])

\* where processExtractedInfoWithRateLimit() goes after fact i of group g:
\* to the next fact of the group, or to the pause that ends the group
AfterFact(g, i) ==
  IF i < CurrentBatch[g]
  THEN [pc |-> "updateClickUpTask", g |-> g, i |-> i + 1]
  ELSE [pc |-> "pauseGroup", g |-> g, i |-> i]

\* ... and after group g: to the first fact of the next group, or out of
\* the loop, where the handler returns
AfterGroup(g) ==
  IF g < Len(CurrentBatch)
  THEN [pc |-> "updateClickUpTask", g |-> g + 1, i |-> 1]
  ELSE [pc |-> "done", g |-> g, i |-> 1]

\* where it goes when updateClickUpTask() for fact i of group g settles.  A
\* first fact that throws is caught by the catch clause of the group, an
\* additional fact that throws by the catch clause inside the inner loop.
AfterUpdate(g, i, ok) ==
  IF ok
  THEN IF CurrentBatch[g] > 1
       THEN [pc |-> "pauseFact", g |-> g, i |-> i]
       ELSE [pc |-> "pauseGroup", g |-> g, i |-> i]
  ELSE IF i = 1 THEN AfterGroup(g) ELSE AfterFact(g, i)

\* the handler exits: the finally clause passes filesToCleanup to
\* cleanupFiles(), and processZoomEvent() logs the error, if any
Exits(how, err) ==
  /\ hPc' = how
  /\ hError' = err
  /\ hCleaned' = Range(filesToCleanup)

\* processExtractedInfoWithRateLimit() moves to pos; a position at
\* updateClickUpTask is a call of it
MovesTo(pos) ==
  /\ hGroup' = pos.g
  /\ hFact' = pos.i
  /\ hAttempted' = IF pos.pc = "updateClickUpTask"
                   THEN hAttempted \cup {<<pos.g, pos.i>>}
                   ELSE hAttempted
  /\ hSent' = IF pos.pc = "updateClickUpTask"
              THEN Append(hSent, CharacterGroups(evResult[HandledEvent])[pos.g].facts[pos.i])
              ELSE hSent
  /\ IF pos.pc = "done"
     THEN Exits("done", "none")
     ELSE hPc' = pos.pc /\ UNCHANGED <<hError, hCleaned>>

\* processZoomEvent() calls handleRecordingCompleted(event)
HandlerStarts(ev) ==
  /\ hPc = "none"
  /\ hEvent' = ev
  /\ IF ValidationError(ev) # "none"
     THEN /\ Exits("failed", "validation")
          /\ UNCHANGED hCalls
     ELSE /\ hPc' = "getAccessToken"
          /\ hCalls' = <<"getAccessToken">>
          /\ UNCHANGED <<hError, hCleaned>>
  /\ UNCHANGED <<filesToCleanup, hCreated, hGroup, hFact, hAttempted, hFailed, hSent>>
  /\ UNCHANGED nonH

\* the handler's getAccessToken() call and the answer to its request
HandlerTokenCall ==
  /\ hPc = "getAccessToken"
  /\ GetAccessToken(HandlerCaller)

HandlerTokenResponse(resp) ==
  /\ hPc = "getAccessToken"
  /\ TokenResponse(HandlerCaller, resp)

\* await getAccessToken() settles
AccessTokenSettles ==
  /\ hPc = "getAccessToken"
  /\ tokPc[HandlerCaller] \in {"returned", "threw"}
  /\ IF tokPc[HandlerCaller] = "threw"
     THEN /\ Exits("failed", "getAccessToken")
          /\ UNCHANGED hCalls
     ELSE /\ hPc' = "enableZoomTranscription"
          /\ hCalls' = Append(hCalls, "enableZoomTranscription")
          /\ UNCHANGED <<hError, hCleaned>>
  /\ UNCHANGED <<hEvent, filesToCleanup, hCreated, hGroup, hFact, hAttempted, hFailed, hSent>>
  /\ UNCHANGED nonH

\* await enableZoomTranscription() settles; its error is only logged
EnableSettles(ok) ==
  /\ hPc = "enableZoomTranscription"
  /\ hPc' = "downloadFile"
  /\ hCalls' = Append(hCalls, "downloadFile")
  /\ UNCHANGED <<hEvent, hError, filesToCleanup, hCreated, hCleaned,
                 hGroup, hFact, hAttempted, hFailed, hSent>>
  /\ UNCHANGED nonH

\* await downloadFile() settles
DownloadSettles(how) ==
  /\ hPc = "downloadFile"
  /\ hCreated' = IF how = "nothing" THEN hCreated ELSE hCreated \cup {"download"}
  /\ IF how = "written"
     THEN /\ filesToCleanup' = Append(filesToCleanup, "download")
          /\ hPc' = "convertToMp3"
          /\ hCalls' = Append(hCalls, "convertToMp3")
          /\ UNCHANGED <<hError, hCleaned>>
     ELSE /\ Exits("failed", "downloadFile")
          /\ UNCHANGED <<filesToCleanup, hCalls>>
  /\ UNCHANGED <<hEvent, hGroup, hFact, hAttempted, hFailed, hSent>>
  /\ UNCHANGED nonH

\* await convertToMp3() settles
ConvertSettles(how) ==
  /\ hPc = "convertToMp3"
  /\ hCreated' = IF how = "nothing" THEN hCreated ELSE hCreated \cup {"mp3"}
  /\ IF how = "written"
     THEN /\ filesToCleanup' = Append(filesToCleanup, "mp3")
          /\ hPc' = "extraction"
          /\ hCalls' = Append(hCalls, "extraction")
          /\ UNCHANGED <<hError, hCleaned>>
     ELSE /\ Exits("failed", "convertToMp3")
          /\ UNCHANGED <<filesToCleanup, hCalls>>
  /\ UNCHANGED <<hEvent, hGroup, hFact, hAttempted, hFailed, hSent>>
  /\ UNCHANGED nonH

\* the steps of the event's extraction chain
HandlerExtraction ==
  /\ hPc = "extraction"
  /\ \/ ExtractionStarts(HandledEvent)
     \/ \E how \in {"zoom", "local", "sample"} \cup ExtractionErrors :
          TranscriptSettles(HandledEvent, how)
     \/ \E outcome \in StrategyOutcomes : GeminiSettles(HandledEvent, outcome)

\* the chain has returned or thrown: an error leaves the handler, an empty
\* list makes it return, and any other list goes to
\* processExtractedInfoWithRateLimit(), which calls updateClickUpTask() for
\* the first fact of the first group
ChainSettles ==
  /\ hPc = "extraction"
  /\ evPc[HandledEvent] \in {"returned", "threw"}
  /\ IF evPc[HandledEvent] = "threw"
     THEN /\ Exits("failed", "extraction")
          /\ UNCHANGED <<hCalls, hGroup, hFact, hAttempted, hSent>>
     ELSE IF evResult[HandledEvent] = "empty"
     THEN /\ Exits("done", "none")
          /\ UNCHANGED <<hCalls, hGroup, hFact, hAttempted, hSent>>
     ELSE /\ MovesTo([pc |-> "updateClickUpTask", g |-> 1, i |-> 1])
          /\ hCalls' = Append(hCalls, "processExtractedInfoWithRateLimit")
  /\ UNCHANGED <<hEvent, filesToCleanup, hCreated, hFailed>>
  /\ UNCHANGED nonH

\* await updateClickUpTask() settles
UpdateSettles(ok) ==
  /\ hPc = "updateClickUpTask"
  /\ hFailed' = IF ok THEN hFailed ELSE hFailed \cup {<<hGroup, hFact>>}
  /\ MovesTo(AfterUpdate(hGroup, hFact, ok))
  /\ UNCHANGED <<hEvent, hCalls, filesToCleanup, hCreated>>
  /\ UNCHANGED nonH

\* the setTimeout() of a pause fires
PauseEnds ==
  /\ hPc \in {"pauseFact", "pauseGroup"}
  /\ MovesTo(IF hPc = "pauseFact" THEN AfterFact(hGroup, hFact)
             ELSE AfterGroup(hGroup))
  /\ UNCHANGED <<hEvent, hCalls, filesToCleanup, hCreated, hFailed>>
  /\ UNCHANGED nonH

InitH ==
  /\ hPc = "none"
  /\ hEvent = [meeting |-> FALSE, files |-> {}]
  /\ hError = "none"
  /\ hCalls = <<>>
  /\ filesToCleanup = <<>>
  /\ hCreated = {}
  /\ hCleaned = {}
  /\ hGroup = 0
  /\ hFact = 0
  /\ hAttempted = {}
  /\ hFailed = {}
  /\ hSent = <<>>

NextH ==
  \/ \E ev \in RecordingEvents : HandlerStarts(ev)
  \/ HandlerTokenCall
  \/ \E resp \in Responses : HandlerTokenResponse(resp)
  \/ AccessTokenSettles
  \/ \E ok \in BOOLEAN : EnableSettles(ok)
  \/ \E how \in FileOutcomes : DownloadSettles(how)
  \/ \E how \in FileOutcomes : ConvertSettles(how)
  \/ HandlerExtraction
  \/ ChainSettles
  \/ \E ok \in BOOLEAN : UpdateSettles(ok)
  \/ PauseEnds

(***************************************************************************)
(* extractInformationWithGemini(text): the interpretation step of a        *)
(* strategy.  Strings that are compared are sequences of letters, so that  *)
(* toLowerCase() and includes() are computed; project and task names are   *)
(* only tested for emptiness.  The response of the model is what the       *)
(* parsing attempts make of it: no JSON at all, or an object with its      *)
(* project and characters (a missing field is the empty one).              *)
(***************************************************************************)
Letters == {"j", "J", "t", "T", "x"}

\* String.prototype.toLowerCase(), letter by letter
LowerLetter(ch) == CASE ch = "J" -> "j" [] ch = "T" -> "t" [] OTHER -> ch
ToLowerCase(str) == [k \in 1..Len(str) |-> LowerLetter(str[k])]

\* String.prototype.includes()
Includes(str, part) ==
  \E k \in 0..(Len(str) - Len(part)) : SubSeq(str, k + 1, k + Len(part)) = part

Texts == {<<"j", "t">>, <<"J", "T", "x">>, <<"t">>, <<>>}
CharacterNames == {<<"J", "t">>, <<"t", "j">>, <<"x">>, <<>>}
TaskLists ==
  {<<>>, <<"", "Animation">>, <<"Blocking", "Animation">>}
ProjectNames == {"", "Show"}

GeminiCharacters == [name : CharacterNames, tasks : TaskLists]

RECURSIVE SeqsUpTo(_, _)
SeqsUpTo(S, n) ==
  IF n = 0 THEN {<<>>}
  ELSE SeqsUpTo(S, n - 1) \cup
       {Append(sq, x) : sq \in {q \in SeqsUpTo(S, n - 1) : Len(q) = n - 1}, x \in S}

GeminiResponses ==
  [json : {TRUE}, project : ProjectNames,
   characters : SeqsUpTo(GeminiCharacters, MaxCharacters)] \cup
  [json : {FALSE}, project : {""}, characters : {<<>>}]

\* confidence: 0.95, in hundredths
ConfidencePercent == 95

NameFoundAlways(text, name) == TRUE
\* text.toLowerCase().includes(character.name.toLowerCase())
NameFound(text, name) == Includes(ToLowerCase(text), ToLowerCase(name))

\* the loop over character.tasks: a fact for every task that is not empty
RECURSIVE FactsOfTasks(_, _, _)
FactsOfTasks(project, name, tasks) ==
  IF tasks = <<>> THEN <<>>
  ELSE (IF Head(tasks) = "" THEN <<>>
        ELSE <<[project |-> project, character |-> name, task |-> Head(tasks),
                confidence |-> ConfidencePercent]>>)
       \o FactsOfTasks(project, name, Tail(tasks))

\* the loop over the validated characters
RECURSIVE FactsOfCharacters(_, _)
FactsOfCharacters(project, characters) ==
  IF characters = <<>> THEN <<>>
  ELSE FactsOfTasks(project, Head(characters).name, Head(characters).tasks)
       \o FactsOfCharacters(project, Tail(characters))

\* validation and mapping of the parsed response
ExtractedInfos(text, parsed) ==
  LET Kept(c) == NameFound(text, c.name)
      validatedCharacters == SelectSeq(parsed.characters, Kept)
      project == IF parsed.project = "" THEN "Prj" ELSE parsed.project
  IN FactsOfCharacters(project, validatedCharacters)

\* extractInformationWithGemini(text) is called and sends its prompt
GeminiCalled(text) ==
  /\ gPc = "idle"
  /\ gPc' = "generateContent"
  /\ gText' = text
  /\ UNCHANGED <<gParsed, gResults>>
  /\ UNCHANGED nonG

\* the response arrives: it is parsed, validated and mapped, or the call
\* throws because no JSON was found in it
GeminiResponds(resp) ==
  /\ gPc = "generateContent"
  /\ gParsed' = resp
  /\ IF resp.json
     THEN /\ gPc' = "returned"
          /\ gResults' = ExtractedInfos(gText, resp)
     ELSE /\ gPc' = "threw"
          /\ UNCHANGED gResults
  /\ UNCHANGED gText
  /\ UNCHANGED nonG

InitG ==
  /\ gPc = "idle"
  /\ gText = <<>>
  /\ gParsed = [json |-> FALSE, project |-> "", characters |-> <<>>]
  /\ gResults = <<>>

NextG ==
  \/ \E text \in Texts : GeminiCalled(text)
  \/ \E resp \in GeminiResponses : GeminiResponds(resp)

(***************************************************************************)
(* Several recording.completed events side by side: the 'message' handler  *)
(* calls processZoomEvent() for each without awaiting it, so their         *)
(* handleRecordingCompleted() calls interleave at every await.  This part  *)
(* keeps what the runs share: the token cache (run r is call r of the      *)
(* token provider) and the temp directory, where downloadFile() writes     *)
(* download_<Date.now()>.mp4 and convertToMp3() writes                     *)
(* audio_<Date.now()>.mp3.  The stages are those of the handler above,     *)
(* each with its outcome only.                                             *)
(***************************************************************************)
Runs == 1..MaxRuns

NoPath == [kind |-> "none", ms |-> 0]
\* path.join(tempDir, `download_${Date.now()}.mp4`) and `audio_..mp3`
TempPath(kind, ms) == [kind |-> kind, ms |-> ms]

\* run r leaves handleRecordingCompleted(): the finally clause unlinks the
\* files of filesToCleanup, and an error is logged by processZoomEvent()
RunExits(r, how, report) ==
  /\ runPc' = [runPc EXCEPT ![r] = how]
  /\ runReport' = [runReport EXCEPT ![r] = report]
  /\ disk' = disk \ Range(runFiles[r])
  /\ UNCHANGED <<runFiles, runOut, nowMs>>

\* processZoomEvent(event) is called with a recording.completed event
RunStarts(r, valid) ==
  /\ runPc[r] = "idle"
  /\ \A q \in Runs : q < r => runPc[q] # "idle"
  /\ IF valid
     THEN /\ runPc' = [runPc EXCEPT ![r] = "getAccessToken"]
          /\ UNCHANGED <<runFiles, runOut, runReport, disk, nowMs>>
     ELSE RunExits(r, "failed", "validation")
  /\ UNCHANGED nonRun

\* its getAccessToken() call and the answer to its request
RunTokenCall(r) ==
  /\ runPc[r] = "getAccessToken"
  /\ GetAccessToken(r)

RunTokenResponse(r, resp) ==
  /\ runPc[r] = "getAccessToken"
  /\ TokenResponse(r, resp)

\* await getAccessToken() settles
RunTokenSettles(r) ==
  /\ runPc[r] = "getAccessToken"
  /\ tokPc[r] \in {"returned", "threw"}
  /\ IF tokPc[r] = "threw"
     THEN RunExits(r, "failed", "getAccessToken")
     ELSE /\ runPc' = [runPc EXCEPT ![r] = "enableZoomTranscription"]
          /\ UNCHANGED <<runFiles, runOut, runReport, disk, nowMs>>
  /\ UNCHANGED nonRun

\* await enableZoomTranscription() settles, either way
RunEnableSettles(r) ==
  /\ runPc[r] = "enableZoomTranscription"
  /\ runPc' = [runPc EXCEPT ![r] = "downloadFile"]
  /\ UNCHANGED <<runFiles, runOut, runReport, disk, nowMs>>
  /\ UNCHANGED nonRun

\* downloadFile(): the answer to its request arrives, and it starts to write
\* the file under the name of the current millisecond; or the request failed
RunDownloadResponds(r, ok) ==
  /\ runPc[r] = "downloadFile"
  /\ IF ok
     THEN /\ runOut' = [runOut EXCEPT ![r] = TempPath("download", nowMs)]
          /\ disk' = disk \cup {TempPath("download", nowMs)}
          /\ runPc' = [runPc EXCEPT ![r] = "writeFile"]
          /\ UNCHANGED <<runFiles, runReport, nowMs>>
     ELSE RunExits(r, "failed", "downloadFile")
  /\ UNCHANGED nonRun

\* await downloadFile() settles: the file is written and its path joins
\* filesToCleanup, and convertToMp3() chooses its output name and starts
\* ffmpeg; or writing failed and the path is never returned
RunWriteSettles(r, ok) ==
  /\ runPc[r] = "writeFile"
  /\ IF ok
     THEN /\ runFiles' = [runFiles EXCEPT ![r] = <<runOut[r]>>]
          /\ runOut' = [runOut EXCEPT ![r] = TempPath("audio", nowMs)]
          /\ runPc' = [runPc EXCEPT ![r] = "convertToMp3"]
          /\ UNCHANGED <<runReport, disk, nowMs>>
     ELSE RunExits(r, "failed", "downloadFile")
  /\ UNCHANGED nonRun

\* ffmpeg ends: with the output written under the name chosen at its
\* start, or with an error (a missing input file is one cause of it)
RunConvertSettles(r, ok) ==
  /\ runPc[r] = "convertToMp3"
  /\ IF ok
     THEN /\ disk' = disk \cup {runOut[r]}
          /\ runFiles' = [runFiles EXCEPT ![r] = Append(@, runOut[r])]
          /\ runPc' = [runPc EXCEPT ![r] = "extraction"]
          /\ UNCHANGED <<runOut, runReport, nowMs>>
     ELSE RunExits(r, "failed", "convertToMp3")
  /\ UNCHANGED nonRun

\* the extraction chain settles: with facts, which are dispatched, with the
\* empty list, or with an error
RunExtractionSettles(r, how) ==
  /\ runPc[r] = "extraction"
  /\ CASE how = "facts" ->
            /\ runPc' = [runPc EXCEPT ![r] = "processExtractedInfoWithRateLimit"]
            /\ UNCHANGED <<runFiles, runOut, runReport, disk, nowMs>>
       [] how = "empty" -> RunExits(r, "done", "none")
       [] how = "threw" -> RunExits(r, "failed", "extraction")
  /\ UNCHANGED nonRun

\* processExtractedInfoWithRateLimit() returns; the errors of its updates
\* were logged inside it
RunDispatchSettles(r, failures) ==
  /\ runPc[r] = "processExtractedInfoWithRateLimit"
  /\ RunExits(r, "done", IF failures THEN "updateClickUpTask" ELSE "none")
  /\ UNCHANGED nonRun

\* a millisecond passes
ClockAdvances ==
  /\ nowMs < MaxNowMs
  /\ nowMs' = nowMs + 1
  /\ UNCHANGED <<runPc, runFiles, runOut, runReport, disk>>
  /\ UNCHANGED nonRun

InitRun ==
  /\ runPc = [r \in Runs |-> "idle"]
  /\ runFiles = [r \in Runs |-> <<>>]
  /\ runOut = [r \in Runs |-> NoPath]
  /\ runReport = [r \in Runs |-> "none"]
  /\ disk = {}
  /\ nowMs = 0

NextRun ==
  \/ \E r \in Runs, valid \in BOOLEAN : RunStarts(r, valid)
  \/ \E r \in Runs : RunTokenCall(r)
  \/ \E r \in Runs, resp \in Responses : RunTokenResponse(r, resp)
  \/ \E r \in Runs : RunTokenSettles(r)
  \/ \E r \in Runs : RunEnableSettles(r)
  \/ \E r \in Runs, ok \in BOOLEAN : RunDownloadResponds(r, ok)
  \/ \E r \in Runs, ok \in BOOLEAN : RunWriteSettles(r, ok)
  \/ \E r \in Runs, ok \in BOOLEAN : RunConvertSettles(r, ok)
  \/ \E r \in Runs, how \in {"facts", "empty", "threw"} : RunExtractionSettles(r, how)
  \/ \E r \in Runs, failures \in BOOLEAN : RunDispatchSettles(r, failures)
  \/ ClockAdvances

Init == InitRL /\ InitWS /\ InitF /\ InitTok /\ InitEv /\ InitH /\ InitG /\ InitRun

Next == NextRL \/ NextWS \/ NextF \/ NextTok \/ NextEv \/ NextH \/ NextG \/ NextRun

Spec == Init /\ [][Next]_vars

\* the dispatcher alone
SpecRL == Init /\ [][NextRL]_vars

\* the dispatcher with few execute() calls
ExecuteFew == submitted < MaxLiveTasks /\ Execute

NextDrain ==
  \/ ExecuteFew
  \/ \E t \in Tasks, kind \in Outcomes : Complete(t, kind)
  \/ \E t \in Tasks : SleepEnds(t)
  \/ Tick

SpecDrain == Init /\ [][NextDrain]_vars

\* ... with a clock that progresses, timers that fire and operations that
\* settle
FairSpecDrain ==
  /\ SpecDrain
  /\ WF_vars(Tick)
  /\ WF_vars(\E t \in Tasks : SleepEnds(t))
  /\ WF_vars(\E t \in Tasks, kind \in Outcomes : Complete(t, kind))

\* the connection manager alone
SpecWS == Init /\ [][NextWS]_vars

\* the frames of a connection and their processing
SpecFrames == Init /\ [][NextConnection \/ NextF]_vars

\* the token provider alone
SpecTok == Init /\ [][NextTok]_vars

\* the extraction chains of the events being processed
SpecExtract == Init /\ [][NextEv]_vars

\* one event through handleRecordingCompleted()
SpecHandler == Init /\ [][NextH]_vars

\* one call of extractInformationWithGemini()
SpecGemini == Init /\ [][NextG]_vars

\* several events processed side by side
SpecRuns == Init /\ [][NextRun]_vars

\* C39: processZoomEvent() never rejects: every failure of a run is caught
\* and reported, and the turn in which one run fails leaves every other
\* run where it was and the files it wrote in place.
RunEnded(r) == runPc[r] \in {"done", "failed"}
FilesOf(r) == Range(runFiles[r]) \cap disk
C39_Reported ==
  \A r \in Runs : (runPc[r] = "failed") => (runReport[r] # "none")
C39_FailureStep ==
  \A a \in Runs :
    (runPc[a] # "failed" /\ runPc'[a] = "failed") =>
      \A b \in Runs \ {a} :
        /\ runPc'[b] = runPc[b]
        /\ runFiles'[b] = runFiles[b]
        /\ runReport'[b] = runReport[b]
        /\ RunEnded(b) \/ FilesOf(b) \subseteq disk'
C39_FailureContained == [](C39_Reported) /\ [][C39_FailureStep]_vars

(***************************************************************************)
(* Properties of the Rate-Limited Dispatcher (checked under SpecRL)        *)
(***************************************************************************)
Active == {"waitSlot", "calling", "backoff"}
Finished == {"resolved", "rejected", "returned"}

\* the number of invocations of fn made for task t
CallsOf(t) == Cardinality({i \in 1..Len(calls) : calls[i] = t})

\* outs is k throttled failures and nothing else
AllThrottled(outs) == \A i \in 1..Len(outs) : outs[i] = "throttled"

\* outs is k throttled failures followed by one success
ThrottledThenOk(outs) ==
  /\ Len(outs) >= 1
  /\ outs[Len(outs)] = "ok"
  /\ AllThrottled(SubSeq(outs, 1, Len(outs) - 1))

\* C1: operations are invoked in the order of the execute() calls (task ids
\* are that order), at most one task is being worked on at any time, and a
\* task, retries included, has finished before any later task is started.
C1_FifoSerial ==
  /\ \A i, j \in 1..Len(calls) : i < j => calls[i] <= calls[j]
  /\ Cardinality({t \in Tasks : pc[t] \in Active}) <= 1
  /\ \A t, u \in Tasks :
       t < u /\ pc[u] \notin {"new", "queued"} => pc[t] \in {"resolved", "rejected"}

\* C1 witness: task 1 was retried, task 2 was invoked next, while 3 and 4,
\* submitted meanwhile, wait in the queue
C1_Witness ==
  /\ calls = <<1, 1, 2>>
  /\ pc[2] = "calling"
  /\ queue = <<3, 4>>

\* C2: at any moment at most maxRequests recorded timestamps, and at most
\* maxRequests invocations of operations (retries included), are younger
\* than timeWindowMs.
C2_RateWindow ==
  /\ Len(FilterWindow(requestTimestamps)) <= maxRequests
  /\ Len(requestTimestamps) <= maxRequests
  /\ Len(FilterWindow(callAges)) <= maxRequests

\* C2 witness: the window is full and a task is made to wait for a slot
C2_Witness ==
  /\ Len(FilterWindow(callAges)) = maxRequests
  /\ \E t \in Tasks : pc[t] = "waitSlot"

C4_RetriesExhausted ==
  \A t \in Tasks :
    /\ CallsOf(t) <= maxRetries + 1
    /\ (Len(outcomes[t]) >= 1 /\ AllThrottled(outcomes[t])) =>
         IF Len(outcomes[t]) = maxRetries + 1
         THEN /\ pc[t] = "rejected"
              /\ settled[t] = [st |-> "rejected", by |-> maxRetries + 1, kind |-> "throttled"]
              /\ CallsOf(t) = maxRetries + 1
         ELSE /\ pc[t] \in Active
              /\ settled[t] = Pending

\* C4 witness: a task rejected after maxRetries+1 throttled invocations
C4_Witness ==
  \E t \in Tasks :
    /\ Len(outcomes[t]) = maxRetries + 1
    /\ AllThrottled(outcomes[t])
    /\ pc[t] = "rejected"

\* C5, the state part: a submitted task that is not settled is being worked
\* on, or is queued behind the one task the running drain loop works on;
\* every settled task carries the outcome of its own last invocation.
C5_NoTaskStranded ==
  /\ \A u \in Tasks :
       /\ pc[u] = "queued" =>
            /\ processing
            /\ \E t \in Tasks : t < u /\ pc[t] \in Active
            /\ \E i \in 1..Len(queue) : queue[i] = u
       /\ pc[u] \in Active => processing
       /\ pc[u] \in Finished =>
            /\ settled[u].st = pc[u]
            /\ settled[u].by = Len(outcomes[u])
            /\ settled[u].kind = outcomes[u][Len(outcomes[u])]
       /\ pc[u] \notin Finished => settled[u] = Pending

\* C5, the step part: the step that rejects a task leaves every other
\* task's outcome alone, cancels nothing, and, if tasks are queued, starts
\* the first of them within the same drain loop.
C5_RejectionStep ==
  \A t \in Tasks :
    (settled[t].st = "pending" /\ settled'[t].st = "rejected") =>
      /\ \A u \in Tasks \ {t} : settled'[u] = settled[u]
      /\ \A u \in Tasks \ {t} : pc[u] \in Active \cup Finished => pc'[u] = pc[u]
      /\ IF Len(queue) > 0
         THEN /\ pc'[Head(queue)] \in Active
              /\ queue' = Tail(queue)
              /\ processing'
         ELSE ~processing'

C6_TimeoutRetried ==
  \A t \in Tasks :
    (Len(outcomes[t]) >= 1 /\ outcomes[t][1] = "timeout") =>
      ~(settled[t].st = "rejected" /\ settled[t].by = 1)

\* C6 as the code has it: a timeout carries no HTTP 429 status, so it is
\* never retried: the invocation that times out is the task's last one, the
\* caller's promise is rejected with that error and no backoff wait follows.
C6_TimeoutSurfaced ==
  \A t \in Tasks :
    \A i \in 1..Len(outcomes[t]) :
      outcomes[t][i] = "timeout" =>
        /\ i = Len(outcomes[t])
        /\ CallsOf(t) = i
        /\ pc[t] = "rejected"
        /\ settled[t] = [st |-> "rejected", by |-> i, kind |-> "timeout"]
        /\ Len(waits[t]) = i - 1

\* C6 witness: a first attempt that timed out, rejected without a retry
\* although retries were left
C6_Witness ==
  \E t \in Tasks :
    /\ outcomes[t] = <<"timeout">>
    /\ retries[t] < maxRetries
    /\ settled[t].st = "rejected"

\* the failures of an operation that do not carry the status 429
C28_OtherFailures == {kind \in Outcomes \ {"ok"} : kind # "throttled"}

\* a task rejected with such a failure has not been invoked again
C28_NoCallAfterFailure ==
  \A t \in Tasks :
    (settled[t].st = "rejected" /\ settled[t].kind \in C28_OtherFailures) =>
      /\ CallsOf(t) = settled[t].by
      /\ Len(outcomes[t]) = settled[t].by
      /\ pc[t] = "rejected"

\* the step in which an invocation of task t ends with such a failure
\* rejects t's promise with that failure and starts no wait for t
C28_FailureStep ==
  \A t \in Tasks :
    LET n == Len(outcomes'[t]) IN
    (n = Len(outcomes[t]) + 1 /\ outcomes'[t][n] \in C28_OtherFailures) =>
      /\ settled[t] = Pending
      /\ settled'[t] = [st |-> "rejected", by |-> n, kind |-> outcomes'[t][n]]
      /\ waits'[t] = waits[t]
      /\ sleepLeft'[t] = 0
      /\ retries'[t] = retries[t]

C29_OneLoop ==
  /\ drainLoops \in {0, 1}
  /\ processing <=> drainLoops = 1
  /\ Len(queue) > 0 => processing
  /\ \A t \in Tasks : pc[t] \in Active \cup {"queued"} => processing

\* an execute() call made while the loop runs only appends its task; one
\* made on an idle dispatcher starts one loop, which takes the task at once
C29_ExecuteStep ==
  submitted' = submitted + 1 =>
    IF processing
    THEN /\ queue' = Append(queue, submitted')
         /\ pc' = [pc EXCEPT ![submitted'] = "queued"]
         /\ drainLoops' = drainLoops
         /\ processing'
    ELSE /\ drainLoops' = 1
         /\ processing'
         /\ queue' = <<>>
         /\ pc'[submitted'] \in Active

\* a queued task leaves the queue only by being taken by the running loop
C29_PickedUpStep ==
  \A t \in Tasks :
    (pc[t] = "queued" /\ pc'[t] # "queued") =>
      /\ processing /\ processing'
      /\ drainLoops' = drainLoops
      /\ pc'[t] \in Active
      /\ queue = <<t>> \o queue'

C30_SettledOnceStep ==
  \A t \in Tasks : settled[t] # Pending => settled'[t] = settled[t]

\* a settled promise carries the result or the error of the task's last
\* invocation
C30_SettledWithOutcome ==
  \A t \in Tasks :
    settled[t] # Pending =>
      /\ settled[t].kind = outcomes[t][Len(outcomes[t])]
      /\ settled[t].st = (IF settled[t].kind = "ok" THEN "resolved" ELSE "rejected")

C31_QueuePlaces(t) == {i \in 1..Len(queue) : queue[i] = t}

\* a submitted task is queued, executing (waiting for a slot or with its
\* operation in flight), retrying (in its backoff wait) or finished; it is
\* in the queue, once, exactly while it is queued
C31_OneState ==
  \A t \in Tasks :
    /\ t <= submitted <=> pc[t] # "new"
    /\ pc[t] \in {"new", "queued", "waitSlot", "calling", "backoff",
                  "resolved", "rejected"}
    /\ Cardinality(C31_QueuePlaces(t)) = (IF pc[t] = "queued" THEN 1 ELSE 0)
    /\ pc[t] \in {"new", "queued"} => CallsOf(t) = 0
    /\ pc[t] \in {"resolved", "rejected"} <=> settled[t] # Pending

\* the step that invokes the operation of a task finds the task outside the
\* queue, or takes it from the head of the queue
C31_InvokeStep ==
  Len(calls') = Len(calls) + 1 =>
    LET t == calls'[Len(calls')] IN
    /\ C31_QueuePlaces(t) = {} \/ (queue # <<>> /\ Head(queue) = t)
    /\ \A i \in 1..Len(queue') : queue'[i] # t
    /\ pc'[t] = "calling"

\* C31: every task of the dispatcher is in exactly one of the states
\* queued, executing, retrying, finished; it leaves the queue before its
\* operation is first invoked and is never queued while executing or after
\* it finished.
C31_TaskStatesExclusive == [](C31_OneState) /\ [][C31_InvokeStep]_vars

\* C31 witness: the first task is in its backoff wait after a throttled
\* invocation while the second waits in the queue
C31_Witness ==
  /\ pc[1] = "backoff"
  /\ outcomes[1] = <<"throttled">>
  /\ pc[2] = "queued"
  /\ queue = <<2>>

(***************************************************************************)
(* Properties of the Streaming Connection Manager (checked under SpecWS)   *)
(***************************************************************************)
\* sockets of the manager that are connecting or open
AliveSockets ==
  (IF ws \in Alive THEN 1 ELSE 0) + stray["CONNECTING"] + stray["OPEN"]

\* connection attempts in flight: an initialize() waiting for its token, or
\* a socket whose handshake has neither completed nor failed
AttemptsInFlight ==
  tokenWaiters + (IF ws = "CONNECTING" THEN 1 ELSE 0) + stray["CONNECTING"]

\* C7: at most one socket of the manager is connecting or open at any time,
\* and no socket the manager no longer holds is left connecting or open.
C7_OneSocketAlive ==
  /\ AliveSockets <= 1
  /\ stray["CONNECTING"] + stray["OPEN"] = 0

\* C8: from the start of a connection attempt until it reached Open or
\* Closed, no other initialize() starts a second attempt.
C8_SequentialAttempts == AttemptsInFlight <= 1

\* C9, one step: the counter rises by exactly one, and it falls only to 0
\* and only when the held connection is Open.
C9_CounterStep ==
  /\ reconnectAttempts' > reconnectAttempts => reconnectAttempts' = reconnectAttempts + 1
  /\ reconnectAttempts' < reconnectAttempts => reconnectAttempts' = 0 /\ ws' = "OPEN"

\* C9: reconnectAttempts increases by exactly one per scheduled reconnect
\* and is reset to 0 only when a connection has reached Open; an attempt
\* that fails before reaching Open never resets it.
C9_ResetOnlyOnOpen == [][C9_CounterStep]_vars

\* C10: without a socket reaching Open (and without a call from outside),
\* the reconnect timer starts at most MAX_RECONNECT_ATTEMPTS attempts.
C10_CircuitBreaker == autoAttempts <= MAX_RECONNECT_ATTEMPTS

\* C11: once scheduleReconnect() has raised the counter above
\* MAX_RECONNECT_ATTEMPTS, the fatal condition is reported exactly once and
\* no reconnect timer is armed (no automatic attempt follows) until
\* initialize() is called from outside again.
C11_FatalOnceAndHalted ==
  /\ fatalReports <= 1
  /\ fatalReports > 0 => reconnectTimer # "armed"

\* C12 as stated: the delay given to the timer of attempt n lies between
\* baseDelay * 1.5^(n-1) * 0.9 and min(maxDelay, baseDelay * 1.5^(n-1)) * 1.1
\* (all terms times DelayUnit).
C12_DelayBoundsAsStated ==
  reconnectTimer = "armed" =>
    /\ scheduled.n \in 1..MAX_RECONNECT_ATTEMPTS
    /\ Backoff(scheduled.n) * 90 <= scheduled.delay
    /\ scheduled.delay <= Min(MaxDelayMs * DelayScale, Backoff(scheduled.n)) * 110

\* C12 as the code has it: the cap applies before the jitter, so both
\* bounds are taken from min(maxDelay, baseDelay * 1.5^(n-1)): the delay of
\* attempt n lies between 0.9 and 1.1 times that capped value.
C12_DelayBoundsCapped ==
  reconnectTimer = "armed" =>
    /\ scheduled.n \in 1..MAX_RECONNECT_ATTEMPTS
    /\ Min(MaxDelayMs * DelayScale, Backoff(scheduled.n)) * 90 <= scheduled.delay
    /\ scheduled.delay <= Min(MaxDelayMs * DelayScale, Backoff(scheduled.n)) * 110

\* C12 witness: a timer armed for an attempt whose uncapped backoff exceeds
\* the cap, with the smallest jitter: 0.9 * 60000 ms
C12_Witness ==
  /\ reconnectTimer = "armed"
  /\ Backoff(scheduled.n) > MaxDelayMs * DelayScale
  /\ scheduled.delay = 54000 * DelayUnit

\* C13: after close() was called from outside, and until initialize() is
\* called from outside, no reconnect timer is armed and no heartbeat timer
\* is active, whatever socket callbacks fire meanwhile.
C13_CloseIsFinal ==
  closeRuns > 0 =>
    /\ reconnectTimer # "armed"
    /\ ~pingInterval
    /\ activeIntervals = 0

\* C14, the functions: in every state the manager can be in, a second
\* cleanup() (a second close()) leaves what the first one left: no socket
\* handle, no heartbeat timer (and for close() no reconnect timer).
C14_SecondCallChangesNothing ==
  LET c == cleanup(Mgr)
      k == close(Mgr)
  IN /\ cleanup(c) = c
     /\ close(k) = k
     /\ c.ws = "null" /\ ~c.pingInterval
     /\ k.ws = "null" /\ ~k.pingInterval /\ k.reconnectTimer = "null"

\* C14, the step: a close() from outside that finds the manager as a
\* close() leaves it changes none of the manager's fields.
C14_SecondCloseStep ==
  (closeRuns >= 1 /\ closeRuns' = closeRuns + 1
     /\ ws = "null" /\ ~pingInterval /\ reconnectTimer = "null")
  => UNCHANGED <<ws, reconnectTimer, isConnecting, pingInterval, reconnectAttempts,
                 stray, activeIntervals, tokenWaiters, created, scheduled>>

\* C14: calling the cleanup path twice in a row (cleanup(); cleanup(), or
\* close(); close()) leaves the state of the first call: no socket handle,
\* no heartbeat timer, Closed.
C14_CleanupIdempotent == [](C14_SecondCallChangesNothing) /\ [][C14_SecondCloseStep]_vars

\* C14 witness: close() was called twice from outside; the first call
\* closed an open socket, and nothing else happened since
C14_Witness ==
  /\ closeRuns = 2
  /\ created = 1
  /\ stray["CLOSING"] = 1
  /\ ws = "null" /\ ~pingInterval /\ reconnectTimer = "null"

\* C15, one step: the step in which a suspended initialize() fails (its
\* wait ends and no socket is constructed) leaves isConnecting false and
\* no socket held, and either arms the reconnect timer or reports the
\* fatal stop.
C15_FailureStep ==
  (tokenWaiters' < tokenWaiters /\ created' = created) =>
    /\ ~isConnecting'
    /\ ws' = "null"
    /\ \/ reconnectTimer' = "armed" /\ reconnectAttempts' = reconnectAttempts + 1
       \/ reconnectAttempts' > MAX_RECONNECT_ATTEMPTS /\ reconnectTimer' # "armed"

\* C15: a failure of token acquisition or socket creation inside
\* initialize() leaves isConnecting false and the manager Closed, and
\* schedules exactly one reconnect (or stops if the attempts are exhausted).
C15_FailureLeavesClosed == [][C15_FailureStep]_vars

\* what an initialize() that does nothing leaves as it is: the socket handle
\* and the open sockets, the token requests, the sockets created, the
\* attempt counter, isConnecting and the heartbeat
C32_Untouched ==
  <<ws, stray, tokenWaiters, created, reconnectAttempts, isConnecting,
    pingInterval, activeIntervals>>

\* initialize() called from outside, or by the reconnect timer's callback,
\* while isConnecting is true
C32_BusyCallStep ==
  (isConnecting /\ (Start \/ ReconnectTimerFires)) =>
    /\ UNCHANGED C32_Untouched
    /\ reconnectTimer' = "armed" => (reconnectTimer = "armed" /\ scheduled' = scheduled)
    /\ Start => reconnectTimer' = reconnectTimer

\* C32: initialize() called while isConnecting is true requests no token,
\* creates no socket, arms no timer and leaves the socket handle, the
\* attempt counter and isConnecting unchanged.
C32_InitializeWhileConnecting ==
  [](isConnecting => initializeEnter(Mgr) = Mgr) /\ [][C32_BusyCallStep]_vars

\* C32 witness: two outside calls of initialize() and one firing of the
\* reconnect timer have left a single token request in flight: one of the
\* calls found isConnecting true
C32_Witness ==
  /\ extCalls = 2
  /\ closeRuns = 0
  /\ isConnecting
  /\ tokenWaiters = 1
  /\ reconnectTimer = "spent"
  /\ reconnectAttempts = 1
  /\ created = 0

\* after the callback the manager is Closed: it holds no socket and no
\* heartbeat, and a reconnect timer is pending unless the attempts are
\* exhausted
C33_TornDownAndScheduled ==
  /\ ws' = "null"
  /\ ~pingInterval'
  /\ \/ reconnectTimer' = "armed" /\ scheduled'.n = reconnectAttempts'
     \/ reconnectAttempts' > MAX_RECONNECT_ATTEMPTS /\ reconnectTimer' # "armed"

\* C33: the 'close' callback and equally the 'error' callback of the
\* current socket leave the manager Closed, with the heartbeat timer and the
\* socket handle released and a reconnect scheduled.
C33_CloseOrErrorReconnects ==
  [][(CurrentCloses \/ CurrentErrors) => C33_TornDownAndScheduled]_vars

\* C34: an 'open' or 'close' callback of a socket the manager no longer
\* holds leaves the current socket, the heartbeat and the reconnect
\* scheduling as they are.
C34_StaleCallbackHarmless ==
  [][(StrayOpens \/ \E st \in SocketStates : StrayCloses(st)) =>
       UNCHANGED <<ws, pingInterval, activeIntervals, reconnectTimer,
                   scheduled, reconnectAttempts>>]_vars

\* C35: at most one heartbeat interval is active, it is the one pingInterval
\* refers to, and none is active while the manager holds no socket.
C35_NoHeartbeatLeak ==
  /\ activeIntervals <= 1
  /\ activeIntervals = (IF pingInterval THEN 1 ELSE 0)
  /\ ws = "null" => activeIntervals = 0

(***************************************************************************)
(* Properties of the message handler (checked under SpecFrames)            *)
(***************************************************************************)
\* the number of processZoomEvent() invocations made for frame i
HandoffsOf(i) == Cardinality({k \in 1..Len(handoffs) : handoffs[k] = i})

\* the fields that make the manager's connection state
connState == <<ws, reconnectTimer, isConnecting, pingInterval, reconnectAttempts, stray>>

\* C16, the state part: a frame that is not valid JSON or is a failed
\* build_connection notification was never handed to processZoomEvent(),
\* every other frame with an event-type field was handed over exactly once,
\* and the invocations are in arrival order.
C16_HandoffPerFrame ==
  /\ \A i \in 1..Len(frames) :
       /\ (~frames[i].json \/ frames[i].connFail) => HandoffsOf(i) = 0
       /\ (frames[i].json /\ ~frames[i].connFail /\ frames[i].hasEvent) => HandoffsOf(i) = 1
  /\ \A k \in 1..Len(handoffs) : handoffs[k] \in 1..Len(frames)
  /\ \A k, l \in 1..Len(handoffs) : k < l => handoffs[k] < handoffs[l]

\* C16, the step part: the arrival of a malformed frame or of a connection
\* failure notification changes nothing of the connection state and starts
\* no invocation.
C16_DroppedFrameStep ==
  (Len(frames') = Len(frames) + 1
     /\ (~frames'[Len(frames')].json \/ frames'[Len(frames')].connFail))
  => /\ UNCHANGED connState
     /\ UNCHANGED <<handoffs, eventRun>>

\* C16: malformed frames and connection-level failure notifications cause
\* no Event Processor invocation and no change of the connection state; a
\* frame with an event-type field causes exactly one invocation;
\* invocations start in frame arrival order.
C16_FrameDispatch == [](C16_HandoffPerFrame) /\ [][C16_DroppedFrameStep]_vars

\* C16 witness: a failure notification that carries an event field was
\* dropped, the event frame after it was handed over
C16_Witness ==
  /\ Len(frames) = 2
  /\ frames[1] = [json |-> TRUE, connFail |-> TRUE, hasEvent |-> TRUE]
  /\ frames[2] = [json |-> TRUE, connFail |-> FALSE, hasEvent |-> TRUE]
  /\ handoffs = <<2>>

\* C17, the state part: whatever invocations are unfinished or have failed,
\* a delivering socket's next frame can be read.
C17_ReadingNotBlocked ==
  (SocketDelivers /\ Len(frames) < MaxFrames) => ENABLED (\E f \in Frames : Message(f))

\* C17, the step part: an event frame is handed over in the step it arrives
\* in, and the step in which an invocation ends (failure included) changes
\* neither the connection state nor any frame's or other invocation's state.
C17_IndependentStep ==
  /\ (Len(frames') = Len(frames) + 1 /\ Dispatches(frames'[Len(frames')]))
       => eventRun'[Len(frames')] = "running"
  /\ \A i \in FrameIds :
       (eventRun[i] = "running" /\ eventRun'[i] # "running") =>
         /\ UNCHANGED connState
         /\ UNCHANGED <<frames, handoffs>>
         /\ \A k \in FrameIds \ {i} : eventRun'[k] = eventRun[k]

\* C17: a slow or failing processZoomEvent() invocation does not block the
\* reading of later frames, and its failure changes neither the connection
\* state nor the handling of later frames.
C17_SlowEventDoesNotBlock == [](C17_ReadingNotBlocked) /\ [][C17_IndependentStep]_vars

\* C17 witness: the first event's invocation is still unfinished; the
\* second event arrived meanwhile, was handed over and has failed, and the
\* connection is still open
C17_Witness ==
  /\ handoffs = <<1, 2>>
  /\ eventRun[1] = "running"
  /\ eventRun[2] = "failed"
  /\ ws = "OPEN"

(***************************************************************************)
(* Properties of the token provider (checked under SpecTok)                *)
(***************************************************************************)
\* token requests in flight
RequestsInFlight == Cardinality({c \in Callers : tokPc[c] = "requesting"})

\* C18, one step.  A call returns the cached token without a request
\* exactly when a token is cached and now < expiresAt - 60 s (in half
\* seconds: nowHalf < 2 * (tokenExpiry - 60)), and otherwise sends one
\* request; a request that succeeds replaces the cached token by the one it
\* returns and the expiry by now plus a lifetime the endpoint answered; a
\* request that fails leaves the cache alone.
C18_CacheStep ==
  \A c \in Callers :
    /\ (tokPc[c] = "idle" /\ tokPc'[c] # "idle") =>
         IF accessToken # 0 /\ nowHalf < 2 * (tokenExpiry - 60)
         THEN /\ tokPc'[c] = "returned"
              /\ tokGot'[c] = accessToken
              /\ requestsSent' = requestsSent
              /\ UNCHANGED <<accessToken, tokenExpiry>>
         ELSE /\ tokPc'[c] = "requesting"
              /\ requestsSent' = requestsSent + 1
              /\ UNCHANGED <<accessToken, tokenExpiry>>
    /\ (tokPc[c] = "requesting" /\ tokPc'[c] = "returned") =>
         /\ tokGot'[c] \in TokenValues
         /\ accessToken' = tokGot'[c]
         /\ \E e \in ExpiresIn : 2 * (tokenExpiry' - e) \in {nowHalf, nowHalf - 1}
    /\ (tokPc[c] = "requesting" /\ tokPc'[c] = "threw") =>
         UNCHANGED <<accessToken, tokenExpiry>>

\* C18: getAccessToken() returns the cached token without contacting the
\* endpoint iff a token is cached and now < expiresAt - 60 s; otherwise it
\* requests a new token and on success replaces the cached token and expiry.
C18_CachedIffValid == [][C18_CacheStep]_vars

\* C18 witness: a token with 61 s to live was obtained and returned from
\* the cache to a second call; one second later a third call found it
\* within the margin and sent a new request
C18_Witness ==
  /\ tokPc = [c \in Callers |-> IF c <= 2 THEN "returned" ELSE "requesting"]
  /\ requestsSent = 2
  /\ accessToken # 0
  /\ tokenExpiry = 61
  /\ nowHalf = 2

\* C19: at most two token requests are in flight at the same time, however
\* many callers invoke getAccessToken() concurrently.
C19_AtMostTwoRefreshes == RequestsInFlight <= 2

(***************************************************************************)
(* Properties of the extraction chain (checked under SpecExtract)          *)
(***************************************************************************)
\* C20: when strategy k of an event's chain returned a non-empty result, no
\* strategy was invoked after k and the chain returned exactly that result.
C20_FirstResultWins ==
  \A e \in Events :
    \A k \in 1..Len(evOutcomes[e]) :
      evOutcomes[e][k] \in ExtractionResults \ {"empty"} =>
        /\ Len(evCalls[e]) = k
        /\ Len(evOutcomes[e]) = k
        /\ evPc[e] = "returned"
        /\ evResult[e] = evOutcomes[e][k]

\* C20 witness: one event's Zoom strategy returned a result at once; the
\* other's Zoom strategy threw and its local strategy returned a result
C20_Witness ==
  /\ evCalls[1] = <<"zoom">>
  /\ evOutcomes[1] = <<"listA">>
  /\ evResult[1] = "listA"
  /\ evCalls[2] = <<"zoom", "lemur">>
  /\ evOutcomes[2] = <<"errA", "listB">>
  /\ evResult[2] = "listB"

\* the strategies of event e that have ended, all of them with an error
AllThrew(e) ==
  \A i \in 1..Len(evOutcomes[e]) : evOutcomes[e][i] \in ExtractionErrors

\* C21: a chain whose strategies ended without an error and with an empty
\* result returns the empty list, raises no error and tries nothing else.
C21_AllEmptyReturnsEmpty ==
  \A e \in Events :
    (/\ evOutcomes[e] # <<>>
     /\ \A i \in 1..Len(evOutcomes[e]) : evOutcomes[e][i] = "empty") =>
      /\ evPc[e] = "returned"
      /\ evResult[e] = "empty"
      /\ Len(evCalls[e]) = Len(evOutcomes[e])

\* C21 witness: the Zoom strategy of an event got its transcript, Gemini
\* found nothing in it, and the chain returned the empty list
C21_Witness ==
  /\ evSource[1] = "zoom"
  /\ evOutcomes[1] = <<"empty">>
  /\ evPc[1] = "returned"
  /\ evResult[1] = "empty"

\* the chain of an event is left with the error of the strategy tried last
C22_LastErrorPropagates ==
  \A e \in Events :
    /\ evPc[e] = "threw" =>
         /\ AllThrew(e)
         /\ evResult[e] = evOutcomes[e][Len(evOutcomes[e])]
    /\ (evPc[e] \in {"returned", "threw"} /\ AllThrew(e)) => evPc[e] = "threw"

\* a step invokes the next strategy exactly when it ends a strategy with an
\* error; only the strategy tried last has no next one, and then the chain
\* fails
C22_MoveOnStep ==
  \A e \in Events :
    LET ended == Len(evOutcomes'[e]) = Len(evOutcomes[e]) + 1
        threw == ended /\ evOutcomes'[e][Len(evOutcomes'[e])] \in ExtractionErrors
        moved == evCalls[e] # <<>> /\ Len(evCalls'[e]) = Len(evCalls[e]) + 1
    IN  /\ moved => threw
        /\ threw => (moved \/ evPc'[e] = "threw")
        /\ ~(moved /\ evPc'[e] = "threw")

\* C22: the chain moves to the next strategy exactly when the current one
\* throws, and when every strategy threw it fails with the error of the
\* strategy tried last.
C22_NextOnThrowLastError ==
  [](C22_LastErrorPropagates) /\ [][C22_MoveOnStep]_vars

\* C22 witness: all three invocations threw, the last one with an error
\* other than the one before it, and the chain failed with the last error
C22_Witness ==
  /\ evCalls[1] = <<"zoom", "lemur", "lemur">>
  /\ evOutcomes[1] = <<"errA", "errB", "errA">>
  /\ evPc[1] = "threw"
  /\ evResult[1] = "errA"

\* the number of times strategy name was invoked for event e
C36_Invocations(e, name) ==
  Cardinality({i \in 1..Len(evCalls[e]) : evCalls[e][i] = name})

\* C36: for one event each extraction strategy is invoked at most once; the
\* local strategy is not run again after it has failed.
C36_EachStrategyOnce ==
  \A e \in Events : \A name \in {"zoom", "lemur"} : C36_Invocations(e, name) <= 1

(***************************************************************************)
(* Properties of extractInformationWithGemini() (checked under SpecGemini) *)
(***************************************************************************)
\* name occurs in text at some place, letter by letter, whatever the case
C37_Appears(text, name) ==
  \E k \in 0..(Len(text) - Len(name)) :
    \A n \in 1..Len(name) : LowerLetter(text[k + n]) = LowerLetter(name[n])

\* the characters of the response that are named in the text and have a
\* task that is not empty
C37_Contributing ==
  {k \in 1..Len(gParsed.characters) :
     /\ C37_Appears(gText, gParsed.characters[k].name)
     /\ \E n \in 1..Len(gParsed.characters[k].tasks) :
          gParsed.characters[k].tasks[n] # ""}

\* C37: every fact returned by the interpretation step has a character
\* whose name appears in the text (case-insensitively), a non-empty project
\* ("Prj" when the response names none), a non-empty task and a
\* confidence in [0,1]; it comes from a character of the response with
\* that name and that task, and characters absent from the text or
\* without tasks contribute no fact.
C37_FactsValidated ==
  gPc = "returned" =>
    /\ \A i \in 1..Len(gResults) :
         LET fact == gResults[i] IN
         /\ C37_Appears(gText, fact.character)
         /\ fact.project # ""
         /\ fact.project = (IF gParsed.project = "" THEN "Prj" ELSE gParsed.project)
         /\ fact.task # ""
         /\ fact.confidence \in 0..100
         /\ \E k \in C37_Contributing :
              /\ gParsed.characters[k].name = fact.character
              /\ \E n \in 1..Len(gParsed.characters[k].tasks) :
                   gParsed.characters[k].tasks[n] = fact.task
    /\ C37_Contributing = {} => gResults = <<>>

\* C37 witness: of two characters the one named in the text in another
\* case gave a fact for its one non-empty task, the other, absent from the
\* text, gave none for its two tasks
C37_Witness ==
  /\ gPc = "returned"
  /\ gText = <<"J", "T", "x">>
  /\ gParsed.project = ""
  /\ gParsed.characters =
       <<[name |-> <<"t", "j">>, tasks |-> <<"Blocking", "Animation">>],
         [name |-> <<"J", "t">>, tasks |-> <<"", "Animation">>]>>
  /\ gResults = <<[project |-> "Prj", character |-> <<"J", "t">>,
                   task |-> "Animation", confidence |-> ConfidencePercent]>>

(***************************************************************************)
(* Properties of handleRecordingCompleted() (checked under SpecHandler)    *)
(***************************************************************************)
\* the handler has exited
Exited == hPc \in {"done", "failed"}

\* every fact of the batch given to processExtractedInfoWithRateLimit()
AllFacts ==
  UNION {{<<g, i>> : i \in 1..CurrentBatch[g]} : g \in 1..Len(CurrentBatch)}

\* the event has no meeting object, or none of its files is of type M4A or
\* MP4 or has the recording type audio_only
C23_NothingToProcess ==
  \/ ~hEvent.meeting
  \/ \A f \in hEvent.files :
       /\ f.file_type \notin {"M4A", "MP4"}
       /\ f.recording_type # "audio_only"

\* such an event has failed validation, and nothing was requested,
\* downloaded, extracted or dispatched for it
C23_InvalidEventFails ==
  (hPc # "none" /\ C23_NothingToProcess) =>
    /\ hPc = "failed"
    /\ hError = "validation"
    /\ hCalls = <<>>
    /\ requestsSent = 0
    /\ hCreated = {}
    /\ evCalls[HandledEvent] = <<>>
    /\ hAttempted = {}

\* a handler that has failed is not run again for its event
C23_NoRetryStep == hPc = "failed" => UNCHANGED <<hvars, evvars, tokvars>>

\* C23: an event without a meeting object or without a locatable audio
\* recording fails with a validation error; nothing is downloaded,
\* extracted or dispatched for it, and it is not retried.
C23_InvalidEventDropped ==
  [](C23_InvalidEventFails) /\ [][C23_NoRetryStep]_vars

\* C23 witness: a meeting whose only file is a chat file was rejected
C23_Witness ==
  /\ hEvent.meeting
  /\ hEvent.files = {[file_type |-> "CHAT", recording_type |-> "chat_file"]}
  /\ hPc = "failed"
  /\ hError = "validation"

\* C24: when the handler has exited, every file written for the event was
\* passed to cleanupFiles().
C24_ArtifactsCleaned == Exited => hCreated \subseteq hCleaned

\* C25: when the batch dispatch is over, updateClickUpTask() was called for
\* every fact of the batch, whichever of them failed.
C25_EveryFactAttempted ==
  (hPc = "done" /\ hGroup > 0) => hAttempted = AllFacts

\* the list given to processExtractedInfoWithRateLimit()
C38_Infos == ExtractedList(evResult[HandledEvent])

\* the place in the list where the character of fact n first appears
C38_FirstAppearance(n) ==
  CHOOSE k \in 1..n :
    /\ C38_Infos[k] = C38_Infos[n]
    /\ \A m \in 1..(k - 1) : C38_Infos[m] # C38_Infos[n]

\* the dispatches made so far are facts of the list, none twice; two facts
\* of one character were dispatched in extraction order, and two facts of
\* different characters in the order in which their characters first
\* appear in the list
C38_Order ==
  /\ \A a \in 1..Len(hSent) : hSent[a] \in 1..Len(C38_Infos)
  /\ \A a, b \in 1..Len(hSent) :
       a < b =>
         /\ hSent[a] # hSent[b]
         /\ IF C38_Infos[hSent[a]] = C38_Infos[hSent[b]]
            THEN hSent[a] < hSent[b]
            ELSE C38_FirstAppearance(hSent[a]) < C38_FirstAppearance(hSent[b])

\* a dispatch is started only when none is in flight: at the start of the
\* batch, after a pause, or in the step in which the one in flight failed
C38_OneAtATimeStep ==
  Len(hSent') > Len(hSent) =>
    /\ Len(hSent') = Len(hSent) + 1
    /\ \/ hPc \in {"extraction", "pauseFact", "pauseGroup"}
       \/ hPc = "updateClickUpTask" /\ <<hGroup, hFact>> \in hFailed' \ hFailed

\* C38: the facts of an event are dispatched grouped by character: groups
\* in the order of first appearance, the facts of a group in extraction
\* order, all facts of a character before any fact of the next, each fact
\* at most once and one dispatch at a time.
C38_GroupedDispatch == [](C38_Order) /\ [][C38_OneAtATimeStep]_vars

\* C38 witness: of the list tom, jerry, tom the two facts of tom were
\* dispatched first, then the fact of jerry
C38_Witness ==
  /\ evResult[HandledEvent] = "listB"
  /\ hSent = <<1, 3, 2>>
  /\ hFailed = {<<1, 2>>}
  /\ hPc = "done"

\* C26: every update sent downstream for the event was submitted to the
\* dispatcher's execute().
C26_UpdatesThroughDispatcher == Cardinality(hAttempted) <= submitted

\* C27: no fact is dispatched for an event whose text is the sample text of
\* fallbackTranscription(): when the local transcription had nothing but
\* the sample text, nothing of the event reaches updateClickUpTask().
C27_NoFactsFromSampleText ==
  evSource[HandledEvent] = "sample" => hAttempted = {}

====
